---- MODULE Spec2Model ----
(***************************************************************************)
(* Ripple: dependency-graph engine (src/src/core/graph.ts), the parser     *)
(* front end it drives (src/src/core/parser.ts) and the Ripple session     *)
(* API (src/src/index.ts, impact calculator, test mapper).                 *)
(*                                                                         *)
(* JavaScript Map and Set iterate in insertion order; both are modelled    *)
(* as sequences: a Map is a sequence of <<key, value>> pairs with distinct *)
(* keys, a Set is a sequence without repetition.                           *)
(***************************************************************************)
EXTENDS Integers, Sequences, FiniteSets, TLC

(***************************************************************************)
(* Bounds of the model.                                                    *)
(***************************************************************************)
MaxEdits == 1        \* filesystem changes made by the environment
MaxImports == 1      \* import statements per file written by the environment
MaxBatch == 2        \* paths per updateGraph call
TravMaxImports == 2  \* import statements per file in the traversal graphs
TravMaxDepth == 2    \* largest maxDepth argument of a traversal
MaxStatements == 2   \* import statements per file in the analysed projects
MaxDependents == 25  \* files importing the file of a quick risk check
MaxCallers == 5      \* direct, and transitive, callers of a RiskInput
MaxFiles == 3        \* files standing where the candidates of an import are probed

(***************************************************************************)
(* The project on disk: root directory, candidate files, import sources.   *)
(***************************************************************************)
Range(s) == {s[i] : i \in 1..Len(s)}
rootDir == "/r"
FileA == "/r/src/a.ts"
FileB == "/r/src/b.ts"
FileT == "/r/src/a.test.ts"
AllPaths == {FileA, FileB, FileT}
\* a test file outside the include patterns: never a node of the graph
FileE == "/r/tests/e2e.ts"
DiskPaths == AllPaths \cup {FileE}
Dirs == {"/r", "/r/src"}
\* order in which glob reports the files of the project
DirListing == <<FileA, FileB, FileT>>
\* test files a project may hold for a.ts besides a.test.ts: in the
\* __tests__ and tests directories beside it, and in the __tests__ directory
\* of the directory above
ExtraTests ==
  <<"/r/src/__tests__/a.spec.ts", "/r/src/tests/a_test.ts",
    "/r/__tests__/a.test.ts", "/r/__tests__/a-spec.ts", "/r/__tests__/b.ts">>
\* order in which the test files enter the set of the test mapper
TestListing == <<FileT>> \o ExtraTests \o <<FileE>>
RelSources == <<"./a", "./b.js", "./a.test">>
ImportSources == <<"./a", "./b.js", "lodash">>
AllSources == Range(RelSources) \cup Range(ImportSources)
\* a directory in which the candidates of one import compete: a module m as
\* a file of each extension or without one, or as a directory with or
\* without index files; a module of the same name one directory below,
\* beside the importer c.ts
FileC == "/r/src/sub/c.ts"
ModulePaths ==
  {"/r/src/m.ts", "/r/src/m.tsx", "/r/src/m.js", "/r/src/m.jsx", "/r/src/m",
   "/r/src/m/index.ts", "/r/src/m/index.js", "/r/src/m/index",
   "/r/src/m/other.ts", "/r/src/sub/m.ts", "/r/src/sub/m.js"}
ModuleSources == <<"./m", "./m.js", "./m.jsx", "../m", "m">>
Importers == {FileA, FileC}
\* order in which glob reports the files of that directory
ModuleListing ==
  <<FileA, "/r/src/m.js", "/r/src/m.jsx", "/r/src/m.ts", "/r/src/m.tsx",
    "/r/src/m", "/r/src/m/index", "/r/src/m/index.js", "/r/src/m/index.ts",
    "/r/src/m/other.ts", FileC, "/r/src/sub/m.js", "/r/src/sub/m.ts">>

(***************************************************************************)
(* Strings.                                                                *)
(***************************************************************************)
startsWith(s, p) == Len(s) >= Len(p) /\ SubSeq(s, 1, Len(p)) = p
endsWith(s, p) == Len(s) >= Len(p) /\ SubSeq(s, Len(s) - Len(p) + 1, Len(s)) = p
slice(s, n) == SubSeq(s, 1, Len(s) - n)   \* s.slice(0, -n)

RECURSIVE lastSlash(_, _)
lastSlash(s, i) ==
  IF i = 0 THEN 0
  ELSE IF SubSeq(s, i, i) = "/" THEN i ELSE lastSlash(s, i - 1)

\* path.dirname of an absolute path
dirname(p) ==
  LET i == lastSlash(p, Len(p))
  IN IF i <= 1 THEN "/" ELSE SubSeq(p, 1, i - 1)

\* the segments of a path, split at "/"
RECURSIVE splitFrom(_, _, _)
splitFrom(s, i, cur) ==
  IF i > Len(s) THEN <<cur>>
  ELSE IF SubSeq(s, i, i) = "/"
       THEN <<cur>> \o splitFrom(s, i + 1, "")
       ELSE splitFrom(s, i + 1, cur \o SubSeq(s, i, i))

\* normalisation of segments: "" and "." dropped, ".." pops
RECURSIVE normalize(_, _)
normalize(segs, acc) ==
  IF segs = <<>> THEN acc
  ELSE LET h == Head(segs)
       IN IF h = "" \/ h = "." THEN normalize(Tail(segs), acc)
          ELSE IF h = ".."
               THEN normalize(Tail(segs),
                              IF acc = <<>> THEN acc
                              ELSE SubSeq(acc, 1, Len(acc) - 1))
               ELSE normalize(Tail(segs), Append(acc, h))

RECURSIVE joinSegs(_)
joinSegs(segs) ==
  IF segs = <<>> THEN "" ELSE "/" \o Head(segs) \o joinSegs(Tail(segs))

\* path.resolve(base, rel) for an absolute base
resolvePath(base, rel) ==
  LET j == joinSegs(normalize(splitFrom(base \o "/" \o rel, 1, ""), <<>>))
  IN IF j = "" THEN "/" ELSE j

(***************************************************************************)
(* Insertion-ordered Map and Set.                                          *)
(***************************************************************************)
mapKeys(m) == {m[i][1] : i \in 1..Len(m)}
mapHas(m, k) == k \in mapKeys(m)
mapGet(m, k) == m[CHOOSE i \in 1..Len(m) : m[i][1] = k][2]
\* Map.set: an existing key keeps its position, a new key goes last
mapSet(m, k, v) ==
  IF mapHas(m, k)
  THEN [i \in 1..Len(m) |-> IF m[i][1] = k THEN <<k, v>> ELSE m[i]]
  ELSE Append(m, <<k, v>>)
mapDelete(m, k) == SelectSeq(m, LAMBDA e : e[1] # k)
setAdd(s, v) == IF v \in Range(s) THEN s ELSE Append(s, v)
setDelete(s, v) == SelectSeq(s, LAMBDA e : e # v)
\* Map<string, Set<string>>: add v to the set under k, creating it if absent
multiAdd(m, k, v) ==
  mapSet(m, k, setAdd(IF mapHas(m, k) THEN mapGet(m, k) ELSE <<>>, v))
\* the set of <<key, member>> pairs of a Map<string, Set<string>>
pairsOf(m) == UNION {{<<m[i][1], v>> : v \in Range(m[i][2])} : i \in 1..Len(m)}

\* the sequences without repetition of at most n elements of the sequence src
RECURSIVE seqsUpTo(_, _)
seqsUpTo(src, n) ==
  IF n = 0 THEN {<<>>}
  ELSE LET shorter == seqsUpTo(src, n - 1)
       IN shorter \cup {Append(q, src[i]) : q \in shorter, i \in 1..Len(src)}
noRepeat(q) == \A i, j \in 1..Len(q) : q[i] = q[j] => i = j
\* ImportInfo: one import statement; its location is its line in the file,
\* the k-th statement standing on line k
importInfo(source, specifiers) == [source |-> source, specifiers |-> specifiers]
\* import * as m from '<source>', one statement per source of the sequence q
namespaceImports(q) == [k \in 1..Len(q) |-> importInfo(q[k], <<"*">>)]
ImportLists ==
  {namespaceImports(q) : q \in {r \in seqsUpTo(ImportSources, MaxImports) : noRepeat(r)}}
TravImportLists ==
  {namespaceImports(q) : q \in {r \in seqsUpTo(RelSources, TravMaxImports) : noRepeat(r)}}
Batches == {q \in seqsUpTo(DirListing, MaxBatch) : noRepeat(q) /\ q # <<>>}

VARIABLES
  disk,         \* path -> [exists, mtime, imports]: the files of the project
  clock,        \* the time the next filesystem change is stamped with
  edits,        \* filesystem changes made so far
  dirty,        \* paths changed on disk since the graph last processed them
  cache,        \* <cachePath>/graph.json
  nodes,        \* graph.nodes: Map path -> GraphNode
  edges,        \* graph.edges: Map path -> Set of paths it imports
  reverseEdges, \* graph.reverseEdges: Map path -> Set of paths importing it
  program,      \* Parser.program: the source files read by ts.createProgram
  testFiles,    \* TestMapper.testFiles
  initialized,  \* Ripple.initialized
  lastCall,     \* the last API call of the session and its outcome
  trav,         \* the activation of getTransitiveDependents/Dependencies
  analysis,     \* the last ImpactAnalysis returned
  score,        \* the last RiskInput given to calculateRisk and its RiskScore
  update,       \* the activation of updateIncremental
  probe,        \* the last call of resolveImport and its result
  boot,         \* the activation of Ripple.initialize
  hooks         \* the ClaudeCodeHooks instance and its last preEditHook result

vars == <<disk, clock, edits, dirty, cache, nodes, edges, reverseEdges,
          program, testFiles, initialized, lastCall, trav,
          analysis, score, update, probe, boot, hooks>>

(***************************************************************************)
(* Filesystem.                                                             *)
(***************************************************************************)
NoFile == [exists |-> FALSE, mtime |-> 0, imports |-> <<>>,
           symbols |-> <<>>, exports |-> <<>>]
\* a source file: its import statements, the names it declares, and which
\* of them carry the export modifier or stand in an export clause
fileOnDisk(mtime, imports, symbols, exports) ==
  [exists |-> TRUE, mtime |-> mtime, imports |-> imports,
   symbols |-> symbols, exports |-> exports]
isFile(d, p) == p \in DOMAIN d /\ d[p].exists       \* statSync(p).isFile()
\* the directories above a path
RECURSIVE ancestors(_)
ancestors(p) ==
  IF dirname(p) = "/" THEN {} ELSE {dirname(p)} \cup ancestors(dirname(p))
containingDirs == [f \in DiskPaths \cup ModulePaths \cup Importers |-> ancestors(f)]
\* a directory exists when a file stands below it
isDirectory(d, p) ==
  \/ p \in Dirs
  \/ \E f \in DOMAIN d \cap DOMAIN containingDirs :
        d[f].exists /\ p \in containingDirs[f]
existsSync(d, p) == isFile(d, p) \/ isDirectory(d, p)

(***************************************************************************)
(* Configuration (DEFAULT_CONFIG) and glob matching.                       *)
(***************************************************************************)
cacheEnabled == TRUE
relativeTo(root, p) ==
  IF startsWith(p, root \o "/") THEN SubSeq(p, Len(root) + 2, Len(p)) ELSE p
\* includePaths src/**/*.{ts,tsx,js,jsx} less excludePaths
matchesInclude(p) ==
  LET rel == relativeTo(rootDir, p)
  IN /\ startsWith(rel, "src/")
     /\ \E ext \in {".ts", ".tsx", ".js", ".jsx"} : endsWith(rel, ext)
     /\ ~ startsWith(rel, "node_modules/")
     /\ ~ startsWith(rel, "dist/")
     /\ ~ startsWith(rel, "build/")
     /\ ~ endsWith(rel, ".d.ts")
\* testPatterns **/*.test.ts(x), **/*.spec.ts(x), **/__tests__/**, **/tests/**
RECURSIVE contains(_, _, _)
contains(s, sub, i) ==
  IF i + Len(sub) - 1 > Len(s) THEN FALSE
  ELSE IF SubSeq(s, i, i + Len(sub) - 1) = sub THEN TRUE
       ELSE contains(s, sub, i + 1)
matchesTestPattern(p) ==
  LET rel == relativeTo(rootDir, p)
  IN /\ \/ \E suf \in {".test.ts", ".test.tsx", ".spec.ts", ".spec.tsx"} :
              endsWith(rel, suf)
        \/ contains("/" \o rel, "/__tests__/", 1)
        \/ contains("/" \o rel, "/tests/", 1)
     /\ ~ startsWith(rel, "node_modules/")

\* DependencyGraphBuilder.discoverFiles: the files on disk matching the
\* include patterns, in glob order, deduplicated
includedPaths == {f \in AllPaths : matchesInclude(f)}
testPaths == {f \in Range(TestListing) : matchesTestPattern(f)}
discoverFiles(d) ==
  SelectSeq(DirListing, LAMBDA f : isFile(d, f) /\ f \in includedPaths)
\* variant: only files that are also discovered as source files
discoverTestFilesIncludedOnly(d) ==
  {f \in testPaths \cap includedPaths : isFile(d, f)}
\* TestMapper.discoverTestFiles
discoverTestFiles(d) == {f \in testPaths : isFile(d, f)}

(***************************************************************************)
(* Import resolution (DependencyGraphBuilder.resolveImport).               *)
(***************************************************************************)
possibleExtensions == <<".ts", ".tsx", ".js", ".jsx", "">>
NoPath == ""      \* null

\* first element of the sequence c satisfying ok, or null
firstHit(c, ok(_)) ==
  LET hits == {i \in 1..Len(c) : ok(c[i])}
  IN IF hits = {} THEN NoPath
     ELSE c[CHOOSE i \in hits : \A j \in hits : i <= j]

stripJs(importSource) ==
  IF endsWith(importSource, ".js") THEN slice(importSource, 3)
  ELSE IF endsWith(importSource, ".jsx") THEN slice(importSource, 4)
       ELSE importSource

\* the paths probed for a relative import, in probing order
relativeCandidates(importSource, fromFile) ==
  LET fromDir == dirname(fromFile)
      baseImport == stripJs(importSource)
      possiblePaths == <<baseImport, baseImport \o "/index">>
  IN [k \in 1..(Len(possiblePaths) * Len(possibleExtensions)) |->
        resolvePath(fromDir,
          possiblePaths[((k - 1) \div Len(possibleExtensions)) + 1]
            \o possibleExtensions[((k - 1) % Len(possibleExtensions)) + 1])]

\* the paths probed under <rootDir>/src, in probing order
sourceRootCandidates(importSource) ==
  LET srcPath == resolvePath(rootDir, "src/" \o importSource)
  IN [k \in 1..Len(possibleExtensions) |-> srcPath \o possibleExtensions[k]]
     \o [k \in 1..Len(possibleExtensions) |->
           resolvePath(srcPath, "index" \o possibleExtensions[k])]

\* the candidate lists of every import source of the project, by importer
relativeTable ==
  [s \in AllSources \cup Range(ModuleSources) |->
     [f \in AllPaths \cup Importers |-> relativeCandidates(s, f)]]
sourceRootTable ==
  [s \in AllSources \cup Range(ModuleSources) |-> sourceRootCandidates(s)]
isRelative ==
  [s \in AllSources \cup Range(ModuleSources) |-> startsWith(s, ".")]

resolveImport(d, importSource, fromFile) ==
  LET rel == IF isRelative[importSource]
             THEN firstHit(relativeTable[importSource][fromFile],
                           LAMBDA p : existsSync(d, p) /\ isFile(d, p))
             ELSE NoPath
  IN IF rel # NoPath THEN rel
     ELSE firstHit(sourceRootTable[importSource],
                   LAMBDA p : existsSync(d, p))

(***************************************************************************)
(* Parser: the TypeScript program is created once from the files on disk   *)
(* and holds the source text it read then.                                 *)
(***************************************************************************)
NoSource == [present |-> FALSE, imports |-> <<>>, symbols |-> <<>>, exports |-> <<>>]
NoProgram == [loaded |-> FALSE, src |-> [f \in AllPaths |-> NoSource]]

\* module resolution of the compiler for the files it pulls into a program:
\* relative specifiers only (no paths mapping, no node_modules in the project)
tsResolve(d, importSource, fromFile) ==
  IF isRelative[importSource]
  THEN firstHit(relativeTable[importSource][fromFile],
                LAMBDA p : isFile(d, p))
  ELSE NoPath

\* the files of a program: the root files on disk and what they import
RECURSIVE programClosure(_, _, _)
programClosure(d, todo, done) ==
  IF todo = {} THEN done
  ELSE LET f == CHOOSE x \in todo : TRUE
           found == {tsResolve(d, d[f].imports[i].source, f) :
                       i \in 1..Len(d[f].imports)} \ {NoPath}
       IN programClosure(d, (todo \cup found) \ (done \cup {f}),
                         done \cup {f})

\* Parser.initialize: ts.createProgram(files, options)
createProgram(d, files) ==
  LET roots == {f \in Range(files) : isFile(d, f)}
      inProgram == programClosure(d, roots, {})
  IN [loaded |-> TRUE,
      src |-> [f \in AllPaths |->
                 IF f \in inProgram
                 THEN [present |-> TRUE, imports |-> d[f].imports,
                       symbols |-> d[f].symbols, exports |-> d[f].exports]
                 ELSE NoSource]]

\* FileLocation: the statements of a file stand one to a line, the import
\* statements first, then the declarations
location(filePath, line) == [filePath |-> filePath, line |-> line, column |-> 1]
\* Parser.extractImports: each import statement with its location
extractImports(filePath, statements) ==
  [k \in 1..Len(statements) |->
     [source |-> statements[k].source, specifiers |-> statements[k].specifiers,
      location |-> location(filePath, k)]]
\* the symbols of extractSymbolsAndExports: each declared name with its location
extractSymbols(filePath, src) ==
  [j \in 1..Len(src.symbols) |->
     [name |-> src.symbols[j],
      location |-> location(filePath, Len(src.imports) + j)]]

\* the source file the program holds for a path (program.getSourceFile), and
\* the ParseResult extracted from it
getSourceFile(p, filePath) ==
  IF filePath \in AllPaths /\ p.src[filePath].present
  THEN p.src[filePath] ELSE NoSource
extractFrom(p, filePath, src) ==
  [program |-> p, imports |-> extractImports(filePath, src.imports),
   symbols |-> extractSymbols(filePath, src), exports |-> src.exports]
parseWith(p, filePath) == extractFrom(p, filePath, getSourceFile(p, filePath))
\* Parser.parseFile: the program to keep and the ParseResult; a file the
\* program does not hold yields an empty result, not an exception
parseFile(prog, d, filePath) ==
  parseWith(IF prog.loaded THEN prog ELSE createProgram(d, <<filePath>>),
            filePath)

\* Parser.toGraphNode: statSync throws when the file is gone
toGraphNodeThrows(d, filePath) == ~ isFile(d, filePath)
toGraphNode(d, parseResult, filePath) ==
  [filePath |-> filePath, symbols |-> parseResult.symbols,
   imports |-> parseResult.imports, exports |-> parseResult.exports,
   lastModified |-> d[filePath].mtime]

(***************************************************************************)
(* DependencyGraphBuilder.                                                 *)
(***************************************************************************)
EmptyGraph == [nodes |-> <<>>, edges |-> <<>>, reverseEdges |-> <<>>]

\* variant: the reverse edge is filed under the importing file
addEdgeReverseMisfiled(g, filePath, resolvedPath) ==
  [g EXCEPT !.edges = multiAdd(g.edges, filePath, resolvedPath),
            !.reverseEdges = multiAdd(g.reverseEdges, filePath, resolvedPath)]

\* the edge pair one import statement adds (body of the loop of buildEdges)
addEdge(g, filePath, resolvedPath) ==
  [g EXCEPT !.edges = multiAdd(g.edges, filePath, resolvedPath),
            !.reverseEdges = multiAdd(g.reverseEdges, resolvedPath, filePath)]

\* variant: any file the import resolves to gets an edge
linksAnyFile(g, resolvedPath) == resolvedPath # NoPath
\* if (resolvedPath && this.graph.nodes.has(resolvedPath))
links(g, resolvedPath) == resolvedPath # NoPath /\ mapHas(g.nodes, resolvedPath)

RECURSIVE importLoop(_, _, _, _, _)
importLoop(d, g, filePath, imports, k) ==
  IF k > Len(imports) THEN g
  ELSE LET resolvedPath == resolveImport(d, imports[k].source, filePath)
       IN importLoop(d,
            IF links(g, resolvedPath)
            THEN addEdge(g, filePath, resolvedPath)
            ELSE g,
            filePath, imports, k + 1)

\* for (const importInfo of node.imports) throws when a node has no imports
\* array (a node taken from a cache file of another shape)
hasImports(node) == "imports" \in DOMAIN node
buildEdgesThrows(g) == \E i \in 1..Len(g.nodes) : ~ hasImports(g.nodes[i][2])
RECURSIVE nodeLoop(_, _, _)
nodeLoop(d, g, i) ==
  IF i > Len(g.nodes) \/ ~ hasImports(g.nodes[i][2]) THEN g
  ELSE nodeLoop(d, importLoop(d, g, g.nodes[i][1], g.nodes[i][2].imports, 1),
                i + 1)

\* buildEdges: clear both maps, then one pass over the nodes and their imports
buildEdges(d, g) ==
  nodeLoop(d, [g EXCEPT !.edges = <<>>, !.reverseEdges = <<>>], 1)

\* removeEdgesForFile
removeEdgesForFile(g, filePath) ==
  LET deps == IF mapHas(g.edges, filePath) THEN mapGet(g.edges, filePath) ELSE <<>>
      rev1 == [i \in 1..Len(g.reverseEdges) |->
                 IF g.reverseEdges[i][1] \in Range(deps)
                 THEN <<g.reverseEdges[i][1], setDelete(g.reverseEdges[i][2], filePath)>>
                 ELSE g.reverseEdges[i]]
      edg1 == mapDelete(g.edges, filePath)
      dependents == IF mapHas(rev1, filePath) THEN mapGet(rev1, filePath) ELSE <<>>
      edg2 == [i \in 1..Len(edg1) |->
                 IF edg1[i][1] \in Range(dependents)
                 THEN <<edg1[i][1], setDelete(edg1[i][2], filePath)>>
                 ELSE edg1[i]]
  IN [g EXCEPT !.edges = edg2, !.reverseEdges = mapDelete(rev1, filePath)]

\* variant: the node of a file that can no longer be read is kept
dropNodeKeeps(nodeMap, file) == nodeMap
\* the catch block of updateIncremental: this.graph.nodes.delete(file)
dropNode(nodeMap, file) == mapDelete(nodeMap, file)
\* one iteration of the parse loops of build and updateIncremental: the node
\* is stored, or (onThrow) left alone by build and deleted by updateIncremental
parseInto(st, d, file, deleteOnThrow) ==
  LET pr == parseFile(st.program, d, file)
  IN IF toGraphNodeThrows(d, file)
     THEN [program |-> pr.program,
           graph |-> IF deleteOnThrow
                     THEN [st.graph EXCEPT !.nodes = dropNode(@, file)]
                     ELSE st.graph]
     ELSE [program |-> pr.program,
           graph |-> [st.graph EXCEPT
                        !.nodes = mapSet(@, file, toGraphNode(d, pr, file))]]

RECURSIVE buildLoop(_, _, _, _)
buildLoop(st, d, files, i) ==
  IF i > Len(files) THEN st
  ELSE buildLoop(parseInto(st, d, files[i], FALSE), d, files, i + 1)

\* saveCache: the snapshot written to graph.json. shape tells whether the
\* text of the file parses as JSON and holds the three arrays, writable
\* whether the cache directory accepts a write, savedAt how many filesystem
\* changes had been made when the file was written and savedBy which
\* operation wrote it
snapshot(g) ==
  [present |-> TRUE, version |-> 1,
   nodes |-> g.nodes, edges |-> g.edges, reverseEdges |-> g.reverseEdges,
   shape |-> "ok", writable |-> TRUE, savedAt |-> -1, savedBy |-> "build"]
NoCache == [present |-> FALSE, version |-> 0,
            nodes |-> <<>>, edges |-> <<>>, reverseEdges |-> <<>>,
            shape |-> "ok", writable |-> TRUE, savedAt |-> -1, savedBy |-> "none"]
\* saveCache catches what mkdirSync and writeFileSync throw
saveCacheThrows(c) == FALSE
\* the cache file after saveCache: a failed write leaves it as it was
saveCache(c, g, now, by) ==
  IF c.writable THEN [snapshot(g) EXCEPT !.savedAt = now, !.savedBy = by] ELSE c

\* build: discovery, a new program over the discovered files, the parse loop
\* over the graph as it stands, then buildEdges
build(g, d) ==
  LET files == discoverFiles(d)
      st == buildLoop([program |-> createProgram(d, files), graph |-> g],
                      d, files, 1)
  IN [program |-> st.program, graph |-> buildEdges(d, st.graph),
      threw |-> buildEdgesThrows(st.graph)]

RECURSIVE updateLoop(_, _, _, _)
updateLoop(st, d, changedFiles, i) ==
  IF i > Len(changedFiles) THEN st
  ELSE updateLoop(
         parseInto([st EXCEPT !.graph = removeEdgesForFile(@, changedFiles[i])],
                   d, changedFiles[i], TRUE),
         d, changedFiles, i + 1)

\* updateIncremental
updateIncremental(prog, g, d, changedFiles) ==
  LET st == updateLoop([program |-> prog, graph |-> g], d, changedFiles, 1)
  IN [program |-> st.program, graph |-> buildEdges(d, st.graph),
      threw |-> buildEdgesThrows(st.graph)]

\* the validation loop of loadCache: some recorded file is gone or newer
cacheStale(d, cachedNodes) ==
  \E i \in 1..Len(cachedNodes) :
     \/ ~ isFile(d, cachedNodes[i][1])
     \/ d[cachedNodes[i][1]].mtime > cachedNodes[i][2].lastModified

\* new Map(entries), new Set(values)
RECURSIVE newMap(_, _, _)
newMap(entries, i, m) ==
  IF i > Len(entries) THEN m
  ELSE newMap(entries, i + 1, mapSet(m, entries[i][1], entries[i][2]))
RECURSIVE newSet(_, _, _)
newSet(values, i, acc) ==
  IF i > Len(values) THEN acc ELSE newSet(values, i + 1, setAdd(acc, values[i]))
\* new Map(entries.map(([k, v]) => [k, new Set(v)]))
adjacencyFrom(entries) ==
  newMap([i \in 1..Len(entries) |->
            <<entries[i][1], newSet(entries[i][2], 1, <<>>)>>], 1, <<>>)

\* loadCache catches what readFileSync, JSON.parse and the Map constructors
\* throw
loadCacheThrows(c) == FALSE
\* loadCache: the result and the graph it leaves in the builder
loadCache(g, d, c) ==
  IF ~ c.present \/ c.shape = "unparsable" \/ c.version # 1
  THEN [ok |-> FALSE, graph |-> g]
  ELSE IF c.shape = "noEdges"
       THEN [ok |-> FALSE, graph |-> [g EXCEPT !.nodes = newMap(c.nodes, 1, <<>>)]]
       ELSE [ok |-> ~ cacheStale(d, c.nodes),
             graph |-> [nodes |-> newMap(c.nodes, 1, <<>>),
                        edges |-> adjacencyFrom(c.edges),
                        reverseEdges |-> adjacencyFrom(c.reverseEdges)]]

\* getDirectDependents / getDirectDependencies / getNode
getDirectDependents(g, filePath) ==
  IF mapHas(g.reverseEdges, filePath) THEN mapGet(g.reverseEdges, filePath) ELSE <<>>
getDirectDependencies(g, filePath) ==
  IF mapHas(g.edges, filePath) THEN mapGet(g.edges, filePath) ELSE <<>>
hasNode(g, filePath) == mapHas(g.nodes, filePath)

(***************************************************************************)
(* TestMapper.getTestsForFile (the test files found by the 3 strategies).  *)
(***************************************************************************)
basename(p) == SubSeq(p, lastSlash(p, Len(p)) + 1, Len(p))
RECURSIVE lastDot(_, _)
lastDot(s, i) ==
  IF i = 0 THEN 0
  ELSE IF SubSeq(s, i, i) = "." THEN i ELSE lastDot(s, i - 1)
\* path.parse(p).name: the base name less its last extension
parsedName(p) ==
  LET b == basename(p)
      k == lastDot(b, Len(b))
  IN IF k <= 1 THEN b ELSE SubSeq(b, 1, k - 1)

conventionCandidates(sourceFile) ==
  LET baseName == parsedName(sourceFile)
      dir == dirname(sourceFile)
      testPatterns == <<baseName \o ".test", baseName \o ".spec",
                        baseName \o "-test", baseName \o "_test">>
      extensions == <<".ts", ".tsx", ".js", ".jsx">>
      places == <<"", "/__tests__", "/tests">>
      cand(k) ==
        LET pi == ((k - 1) \div (Len(extensions) * Len(places))) + 1
            ei == (((k - 1) \div Len(places)) % Len(extensions)) + 1
            li == ((k - 1) % Len(places)) + 1
        IN dir \o places[li] \o "/" \o testPatterns[pi] \o extensions[ei]
  IN [k \in 1..(Len(testPatterns) * Len(extensions) * Len(places)) |-> cand(k)]
NoSuchFile == "/r/src/zz.ts"
QueryPaths == DiskPaths \cup {NoSuchFile}
conventionTable == [f \in QueryPaths |-> conventionCandidates(f)]
findByNamingConvention(tf, sourceFile) ==
  SelectSeq(conventionTable[sourceFile], LAMBDA c : c \in tf)

findByImportAnalysis(g, tf, sourceFile) ==
  SelectSeq(getDirectDependents(g, sourceFile), LAMBDA dep : dep \in tf)

stripTestSuffix(n) ==
  LET cut(x, seps) ==
        IF \E sep \in seps : endsWith(x, sep \o "test") \/ endsWith(x, sep \o "spec")
        THEN slice(x, 5) ELSE x
  IN cut(cut(cut(n, {"."}), {"-"}), {"_"})

colocated(t, sourceFile) ==
  /\ startsWith(t, dirname(dirname(sourceFile)) \o "/__tests__")
  /\ stripTestSuffix(parsedName(t)) = parsedName(sourceFile)
colocatedTable ==
  [f \in QueryPaths |-> {t \in Range(TestListing) : colocated(t, f)}]
findColocatedTests(tf, sourceFile) ==
  SelectSeq(TestListing, LAMBDA t : t \in tf /\ t \in colocatedTable[sourceFile])

RECURSIVE dedupe(_, _)
dedupe(q, acc) ==
  IF q = <<>> THEN acc ELSE dedupe(Tail(q), setAdd(acc, Head(q)))

\* variant: the three lists are concatenated as they are
getTestsForFileConcatenated(g, tf, sourceFile) ==
  findByNamingConvention(tf, sourceFile)
    \o findByImportAnalysis(g, tf, sourceFile)
    \o findColocatedTests(tf, sourceFile)
\* TestMapper.getTestsForFile: the testFiles of the mapping
getTestsForFile(g, tf, sourceFile) ==
  dedupe(findByNamingConvention(tf, sourceFile)
           \o findByImportAnalysis(g, tf, sourceFile)
           \o findColocatedTests(tf, sourceFile), <<>>)

\* variant of the first rule: either condition alone gives CRITICAL
quickRiskLevelEither(callerCount, hasTests) ==
  IF callerCount > 20 \/ ~ hasTests THEN "CRITICAL"
  ELSE IF callerCount > 10 \/ ~ hasTests THEN "HIGH"
       ELSE IF callerCount > 5 THEN "MEDIUM"
            ELSE "LOW"
\* ImpactCalculator.quickRiskCheck
quickRiskLevel(callerCount, hasTests) ==
  IF callerCount > 20 /\ ~ hasTests THEN "CRITICAL"
  ELSE IF callerCount > 10 \/ ~ hasTests THEN "HIGH"
       ELSE IF callerCount > 5 THEN "MEDIUM"
            ELSE "LOW"

(***************************************************************************)
(* RiskScorer. Scores are rationals: a factor value is carried as a number *)
(* of units, units(t) to the point, and a weighted sum as hundredths of a  *)
(* unit, so that every division of the scorer is exact.                    *)
(***************************************************************************)
riskThresholds == [low |-> 3, medium |-> 5, high |-> 7]
\* DEFAULT_WEIGHTS, in hundredths
\* variant: every factor weighs the same
weightsUniform == [callerCount |-> 20, untestedRatio |-> 20, criticalPath |-> 20,
                   testCoverage |-> 20, transitiveDepth |-> 20]
weights == [callerCount |-> 25, untestedRatio |-> 30, criticalPath |-> 25,
            testCoverage |-> 15, transitiveDepth |-> 5]
Min(a, b) == IF a < b THEN a ELSE b
Max(a, b) == IF a > b THEN a ELSE b
totalCallers(input) == input.direct + input.transitive
\* units to the point for an input with t callers: 300 (the divisors 5, 10,
\* 15, 50 of the caller factor and 20 of the coverage factor) times t (the
\* divisor of the untested ratio)
units(input) == 300 * Max(totalCallers(input), 1)

\* variant of the caller factor: the last range is not capped
calculateCallerFactorUncapped(input) ==
  LET t == totalCallers(input)
      u == units(input)
  IN IF t = 0 THEN 0
     ELSE IF t <= 5 THEN 2 * u + (2 * t * u) \div 5
     ELSE IF t <= 15 THEN 4 * u + (2 * (t - 5) * u) \div 10
     ELSE IF t <= 30 THEN 6 * u + (2 * (t - 15) * u) \div 15
     ELSE 8 * u + ((t - 30) * u) \div 50
calculateCallerFactor(input) ==
  LET t == totalCallers(input)
      u == units(input)
  IN IF t = 0 THEN 0
     ELSE IF t <= 5 THEN 2 * u + (2 * t * u) \div 5
     ELSE IF t <= 15 THEN 4 * u + (2 * (t - 5) * u) \div 10
     ELSE IF t <= 30 THEN 6 * u + (2 * (t - 15) * u) \div 15
     ELSE 8 * u + Min(2 * u, ((t - 30) * u) \div 50)

calculateUntestedFactor(input) ==
  LET t == totalCallers(input)
  IN IF t = 0 THEN 0 ELSE (10 * input.untested * units(input)) \div t

calculateCriticalPathFactor(input) ==
  LET u == units(input)
  IN (IF input.fileCritical THEN 5 * u ELSE 0)
     + (IF input.critical > 0 THEN Min(5, input.critical) * u ELSE 0)

\* tests: "nomapping" no TestMapping of the target among affectedTests,
\* "none" no test files, "nocoverage" tests without coverage data,
\* "coverage" tests with line and branch percentages
calculateTestCoverageFactor(input) ==
  LET u == units(input)
  IN IF input.tests = "nomapping" THEN 8 * u
     ELSE IF input.tests = "none" THEN 10 * u
     ELSE IF input.tests = "nocoverage" THEN 3 * u
     ELSE 10 * u - ((input.lines + input.branches) * u) \div 20

calculateTransitiveFactor(input) ==
  LET n == input.transitive
      u == units(input)
  IN IF n = 0 THEN 0
     ELSE IF n <= 5 THEN 2 * u
     ELSE IF n <= 15 THEN 4 * u
     ELSE IF n <= 30 THEN 6 * u
     ELSE 8 * u

\* the reduce over the factors: hundredths of a unit
weightedSum(input) ==
  calculateCallerFactor(input) * weights.callerCount
  + calculateUntestedFactor(input) * weights.untestedRatio
  + calculateCriticalPathFactor(input) * weights.criticalPath
  + calculateTestCoverageFactor(input) * weights.testCoverage
  + calculateTransitiveFactor(input) * weights.transitiveDepth

\* the factors pushed by calculateRisk, in the order pushed
factorsOf(input) ==
  <<[name |-> "Caller Count", weight |-> weights.callerCount,
     value |-> calculateCallerFactor(input)],
    [name |-> "Untested Callers", weight |-> weights.untestedRatio,
     value |-> calculateUntestedFactor(input)],
    [name |-> "Critical Path", weight |-> weights.criticalPath,
     value |-> calculateCriticalPathFactor(input)],
    [name |-> "Test Coverage", weight |-> weights.testCoverage,
     value |-> calculateTestCoverageFactor(input)],
    [name |-> "Transitive Impact", weight |-> weights.transitiveDepth,
     value |-> calculateTransitiveFactor(input)]>>

\* variant of the normalisation: no upper clamp
normalizedValueUnclamped(input) == Max(0, weightedSum(input))
\* Math.min(10, Math.max(0, weightedSum)): hundredths of a unit
normalizedValue(input) ==
  Min(10 * 100 * units(input), Max(0, weightedSum(input)))

\* determineRiskLevel on a score in hundredths of a unit
determineRiskLevel(scoreNum, input) ==
  LET point == 100 * units(input)
  IN IF scoreNum >= riskThresholds.high * point THEN "CRITICAL"
     ELSE IF scoreNum >= riskThresholds.medium * point THEN "HIGH"
     ELSE IF scoreNum >= riskThresholds.low * point THEN "MEDIUM"
     ELSE "LOW"

\* calculateRisk: value is Math.round(normalizedValue * 10), i.e. the
\* returned value in tenths; level is taken from the unrounded value
calculateRisk(input) ==
  LET n == normalizedValue(input)
      point == 100 * units(input)
  IN [value |-> (10 * n + point \div 2) \div point,
      level |-> determineRiskLevel(n, input),
      factors |-> factorsOf(input)]
\* the RiskScore of an input, with the input
scoreOf(input) ==
  [called |-> TRUE, direct |-> input.direct,
   transitive |-> input.transitive, untested |-> input.untested,
   critical |-> input.critical, fileCritical |-> input.fileCritical,
   tests |-> input.tests, lines |-> input.lines, branches |-> input.branches,
   value |-> calculateRisk(input).value, level |-> calculateRisk(input).level,
   factors |-> calculateRisk(input).factors]

(***************************************************************************)
(* Transitive traversal (getTransitiveDependents, getTransitiveDependencies)*)
(* as the activation record of the recursive closure traverse.             *)
(***************************************************************************)
\* variant of the early return: depth compared with >=
skipNodeOffByOne(current, depth, maxDepth, visited) ==
  depth >= maxDepth \/ current \in visited
\* variant of the push test: every member of the adjacency set is pushed
pushesDepAlways(dep, visited) == TRUE

\* line 258 / 286: the early return of traverse
skipNode(current, depth, maxDepth, visited) ==
  depth > maxDepth \/ current \in visited
\* line 266 / 294: the test guarding result.push and the recursive call
pushesDep(dep, visited) == dep \notin visited
\* the adjacency set iterated: reverseEdges for dependents, edges otherwise
adjacencyOf(g, dir, current) ==
  IF dir = "dependents" THEN getDirectDependents(g, current)
  ELSE getDirectDependencies(g, current)
frame(current, depth) ==
  [current |-> current, depth |-> depth, todo |-> <<>>, entered |-> FALSE]

\* getTransitiveDependents / getTransitiveDependencies as functions: traverse
\* and its for loop, threading visited and result
RECURSIVE traverse(_, _, _, _, _, _)
RECURSIVE traverseLoop(_, _, _, _, _, _)
traverse(g, dir, current, depth, maxDepth, st) ==
  IF skipNode(current, depth, maxDepth, st.visited) THEN st
  ELSE traverseLoop(g, dir, adjacencyOf(g, dir, current), depth, maxDepth,
                    [st EXCEPT !.visited = @ \cup {current}])
traverseLoop(g, dir, todo, depth, maxDepth, st) ==
  IF todo = <<>> THEN st
  ELSE traverseLoop(g, dir, Tail(todo), depth, maxDepth,
         IF pushesDep(Head(todo), st.visited)
         THEN traverse(g, dir, Head(todo), depth + 1, maxDepth,
                       [st EXCEPT !.result = Append(@, Head(todo))])
         ELSE st)
getTransitiveDependents(g, filePath, maxDepth) ==
  traverse(g, "dependents", filePath, 0, maxDepth,
           [visited |-> {}, result |-> <<>>]).result

(***************************************************************************)
(* ImpactCalculator.                                                       *)
(***************************************************************************)
DefaultMaxDepth == 10
criticalPathPatterns == {"auth", "payment", "billing", "security", "admin"}
\* isCriticalPath / isInCriticalPath: a directory of the path bears the name
isCriticalPath(filePath) ==
  \E name \in criticalPathPatterns : contains(filePath, "/" \o name \o "/", 1)
criticalTable == [f \in QueryPaths |-> isCriticalPath(f)]

stripPrefix(x, pre) == IF startsWith(x, pre) THEN SubSeq(x, Len(pre) + 1, Len(x)) ELSE x
\* replace(/\.(ts|tsx|js|jsx)$/, '')
stripSourceExt(b) ==
  IF endsWith(b, ".tsx") \/ endsWith(b, ".jsx") THEN slice(b, 4)
  ELSE IF endsWith(b, ".ts") \/ endsWith(b, ".js") THEN slice(b, 3)
       ELSE b
\* lines 273-288 of pathsToCallers: does the import source, normalised, match
\* the source file by base name
matchesSourceFile(src, sourceFile) ==
  LET importSource == stripJs(stripPrefix(stripPrefix(src, "./"), "../"))
      sourceBasename == stripSourceExt(basename(sourceFile))
  IN \/ importSource = sourceBasename
     \/ endsWith(importSource, "/" \o sourceBasename)
     \/ contains(sourceFile, importSource, 1)
matchTable ==
  [src \in AllSources |-> [f \in QueryPaths |-> matchesSourceFile(src, f)]]

\* variant: every import statement of the candidate file yields a caller
callersOfPathEveryImport(g, tf, depPath, sourceFile) ==
  IF ~ hasNode(g, depPath) THEN <<>>
  ELSE LET imports == mapGet(g.nodes, depPath).imports
       IN [k \in 1..Len(imports) |->
             [location |-> imports[k].location,
              isTestFile |-> depPath \in tf,
              isCriticalPath |-> criticalTable[depPath]]]
\* the Caller entries one candidate file contributes
callersOfPath(g, tf, depPath, sourceFile) ==
  IF ~ hasNode(g, depPath) THEN <<>>
  ELSE LET imports == mapGet(g.nodes, depPath).imports
           matching == SelectSeq(imports,
                         LAMBDA imp : matchTable[imp.source][sourceFile])
       IN [k \in 1..Len(matching) |->
             [location |-> matching[k].location,
              isTestFile |-> depPath \in tf,
              isCriticalPath |-> criticalTable[depPath]]]
RECURSIVE pathsToCallers(_, _, _, _)
pathsToCallers(g, tf, paths, sourceFile) ==
  IF paths = <<>> THEN <<>>
  ELSE callersOfPath(g, tf, Head(paths), sourceFile)
         \o pathsToCallers(g, tf, Tail(paths), sourceFile)

\* variant of the export test of analyzeSymbolImpact: every symbol counts as
\* exported
isExportedAlways(node, symbolName) == TRUE
\* line 157: node.exports.some(e => e.name === symbolName)
isExported(node, symbolName) == symbolName \in Range(node.exports)
\* lines 165-176: the direct dependents some import of which names the symbol
\* or is a wildcard
importsSymbol(g, depPath, symbolName) ==
  /\ hasNode(g, depPath)
  /\ \E imp \in Range(mapGet(g.nodes, depPath).imports) :
        \E spec \in Range(imp.specifiers) : spec = symbolName \/ spec = "*"

\* the part of the pipeline the analyses share: untested callers, risk score
\* and summary, for a target whose own TestMapping is among affectedTests
\* and a session without coverage data
\* variant: the summary counts the direct callers only
generateSummaryDirectOnly(directCallers, transitiveCallers, untestedCallers) ==
  [totalCallers |-> Len(directCallers),
   testedCallers |-> Len(directCallers) - Len(untestedCallers),
   untestedCallers |-> Len(untestedCallers),
   criticalPathCallers |->
     Len(SelectSeq(directCallers, LAMBDA c : c.isCriticalPath)),
   filesAffected |->
     Cardinality({directCallers[k].location.filePath : k \in 1..Len(directCallers)})]
\* generateSummary (the recommendation text is left out)
generateSummary(directCallers, transitiveCallers, untestedCallers) ==
  [totalCallers |-> Len(directCallers) + Len(transitiveCallers),
   testedCallers |->
     (Len(directCallers) + Len(transitiveCallers)) - Len(untestedCallers),
   untestedCallers |-> Len(untestedCallers),
   criticalPathCallers |->
     Len(SelectSeq(directCallers \o transitiveCallers, LAMBDA c : c.isCriticalPath)),
   filesAffected |->
     Cardinality(
       {directCallers[k].location.filePath : k \in 1..Len(directCallers)}
         \cup {transitiveCallers[k].location.filePath :
                 k \in 1..Len(transitiveCallers)})]
\* the TestMapping of a file (coverage is unavailable: no coverage file)
testMappingOf(g, tf, sourceFile) ==
  [sourceFile |-> sourceFile, testFiles |-> getTestsForFile(g, tf, sourceFile)]
\* affectedTests: the mapping of the target, then the mapping of each of the
\* given dependents that has a test file
affectedTestsOf(g, tf, filePath, dependentPaths) ==
  <<testMappingOf(g, tf, filePath)>>
    \o SelectSeq([k \in 1..Len(dependentPaths) |->
                    testMappingOf(g, tf, dependentPaths[k])],
                 LAMBDA m : Len(m.testFiles) > 0)
impactOf(g, tf, filePath, directCallers, transitiveCallers, dependentPaths) ==
  LET allCallers == directCallers \o transitiveCallers
      untestedCallers ==
        SelectSeq(allCallers,
          LAMBDA c : Len(getTestsForFile(g, tf, c.location.filePath)) = 0)
      riskInput ==
        [direct |-> Len(directCallers), transitive |-> Len(transitiveCallers),
         untested |-> Len(untestedCallers),
         critical |-> Len(SelectSeq(allCallers, LAMBDA c : c.isCriticalPath)),
         fileCritical |-> criticalTable[filePath],
         tests |-> IF Len(getTestsForFile(g, tf, filePath)) = 0
                   THEN "none" ELSE "nocoverage",
         lines |-> 0, branches |-> 0]
  IN [directCallers |-> directCallers,
      transitiveCallers |-> transitiveCallers,
      untestedCallers |-> untestedCallers,
      affectedTests |-> affectedTestsOf(g, tf, filePath, dependentPaths),
      summary |-> generateSummary(directCallers, transitiveCallers, untestedCallers),
      totalCallers |-> Len(directCallers) + Len(transitiveCallers),
      riskInput |-> riskInput,
      riskValue |-> calculateRisk(riskInput).value,
      riskLevel |-> calculateRisk(riskInput).level]

\* variant of the filter: nothing is excluded
excludingNothing(transitivePaths, counted) == transitivePaths
\* transitivePaths.filter((p) => !counted.includes(p))
excluding(transitivePaths, counted) ==
  SelectSeq(transitivePaths, LAMBDA p : p \notin Range(counted))
\* analyzeFileImpact with includeTransitive left at its default
analyzeFileImpact(g, tf, filePath, maxDepth) ==
  IF ~ hasNode(g, filePath) THEN [outcome |-> "error"]
  ELSE LET directDependentPaths == getDirectDependents(g, filePath)
           transitiveOnly ==
             excluding(getTransitiveDependents(g, filePath, maxDepth),
                       directDependentPaths)
       IN [outcome |-> "ok",
           target |-> location(filePath, 1),
           impact |-> impactOf(g, tf, filePath,
                        pathsToCallers(g, tf, directDependentPaths, filePath),
                        pathsToCallers(g, tf, transitiveOnly, filePath),
                        directDependentPaths)]

\* variant of the symbol lookup: the name is not compared
findSymbolAnyName(node, symbolName) == node.symbols
\* line 151: node.symbols.find(s => s.name === symbolName), as the list of
\* the symbols that match (find returns the first of them, or undefined)
findSymbol(node, symbolName) ==
  SelectSeq(node.symbols, LAMBDA sym : sym.name = symbolName)
\* analyzeSymbolImpact with includeTransitive left at its default
analyzeSymbolImpact(g, tf, symbolName, filePath, maxDepth) ==
  IF ~ hasNode(g, filePath) THEN [outcome |-> "error"]
  ELSE LET node == mapGet(g.nodes, filePath)
           found == findSymbol(node, symbolName)
           importingFiles ==
             SelectSeq(getDirectDependents(g, filePath),
                       LAMBDA depPath : importsSymbol(g, depPath, symbolName))
           transitiveOnly ==
             excluding(getTransitiveDependents(g, filePath, maxDepth),
                       importingFiles)
       IN IF found = <<>> THEN [outcome |-> "error"]
          ELSE [outcome |-> "ok",
                target |-> found[1].location,
                impact |->
                  IF isExported(node, symbolName)
                  THEN impactOf(g, tf, filePath,
                         pathsToCallers(g, tf, importingFiles, filePath),
                         pathsToCallers(g, tf, transitiveOnly, filePath), <<>>)
                  ELSE impactOf(g, tf, filePath, <<>>, <<>>, <<>>)]

\* the renameLocations of analyzeRenameImpact
renameLocations(result) ==
  <<result.target>>
    \o [k \in 1..Len(result.impact.directCallers) |->
          result.impact.directCallers[k].location]
    \o [k \in 1..Len(result.impact.transitiveCallers) |->
          result.impact.transitiveCallers[k].location]

(***************************************************************************)
(* State after construction of a Ripple session over the project.          *)
(***************************************************************************)
graph == [nodes |-> nodes, edges |-> edges, reverseEdges |-> reverseEdges]

NoCall == [op |-> "none", path |-> "", outcome |-> "none", value |-> <<>>,
           level |-> "", cacheResult |-> "none", fresh |-> FALSE, at |-> 0,
           builtAt |-> -1, cacheAge |-> -1, cacheBy |-> "none", batch |-> <<>>]
TravIdle == [pc |-> "idle", dir |-> "", start |-> "", maxDepth |-> 0,
             stack |-> <<>>, visited |-> {}, result |-> <<>>, expanded |-> <<>>]

\* no analysis returned, no score computed, no update in flight, no probe
NoAnalysis == [op |-> "none", symbol |-> "", path |-> "", maxDepth |-> 0,
               outcome |-> "none", target |-> location("", 0),
               directCallers |-> <<>>,
               transitiveCallers |-> <<>>, untestedCallers |-> <<>>,
               totalCallers |-> 0, renameLocations |-> <<>>,
               riskValue |-> 0, riskLevel |-> "",
               affectedTests |-> <<>>,
               summary |-> [totalCallers |-> 0, testedCallers |-> 0,
                            untestedCallers |-> 0, criticalPathCallers |-> 0,
                            filesAffected |-> 0]]
NoScore == [called |-> FALSE, direct |-> 0, transitive |-> 0, untested |-> 0,
            critical |-> 0, fileCritical |-> FALSE, tests |-> "none",
            lines |-> 0, branches |-> 0, value |-> 0, level |-> "",
            factors |-> <<>>]
UpdateIdle == [pc |-> "idle", changedFiles |-> <<>>, i |-> 0,
               before |-> EmptyGraph, after |-> EmptyGraph,
               qpc |-> "idle", qop |-> "", qpath |-> "", qleft |-> 0,
               qInFlight |-> FALSE, reads |-> <<>>]
NoProbe == [called |-> FALSE, importSource |-> "", fromFile |-> "",
            result |-> NoPath, built |-> FALSE]
\* no initialize call in flight
BootIdle == [pc |-> "idle", useCache |-> FALSE, cacheLoaded |-> FALSE]
\* DEFAULT_HOOK_CONFIG
DEFAULT_HOOK_CONFIG ==
  [enabled |-> TRUE, autoAnalyze |-> TRUE, blockOnHighRisk |-> FALSE,
   showAnalysisUI |-> TRUE, riskThreshold |-> "HIGH"]
\* analysis: null
NullAnalysis ==
  [riskScore |-> [value |-> 0, level |-> ""], untestedCallers |-> 0,
   summary |-> [totalCallers |-> 0, untestedCallers |-> 0,
                criticalPathCallers |-> 0]]
\* no preEditHook call has returned
NoHookResult == [called |-> FALSE, filePath |-> "", proceed |-> TRUE,
                 hasAnalysis |-> FALSE, analysis |-> NullAnalysis,
                 warnings |-> <<>>, requiresConfirmation |-> FALSE]
\* a ClaudeCodeHooks instance built with no config
NoHooks == [config |-> DEFAULT_HOOK_CONFIG, analysisCache |-> <<>>,
            result |-> NoHookResult]

InitDisk ==
  [f \in DiskPaths |->
     fileOnDisk(1, IF f = FileB THEN namespaceImports(<<"./a">>)
                   ELSE IF f = FileT THEN namespaceImports(<<"./b.js">>)
                        ELSE <<>>,
                <<>>, <<>>)]

Init ==
  /\ disk = InitDisk
  /\ clock = 2
  /\ edits = 0
  /\ dirty = {}
  /\ cache = NoCache
  /\ nodes = <<>>
  /\ edges = <<>>
  /\ reverseEdges = <<>>
  /\ program = NoProgram
  /\ testFiles = {}
  /\ initialized = FALSE
  /\ lastCall = NoCall
  /\ trav = TravIdle
  /\ analysis = NoAnalysis
  /\ score = NoScore
  /\ update = UpdateIdle
  /\ probe = NoProbe
  /\ boot = BootIdle
  /\ hooks = NoHooks

(***************************************************************************)
(* The environment: files are written, deleted and re-stamped.             *)
(***************************************************************************)
WriteFile(f, imps) ==
  /\ edits < MaxEdits
  /\ disk' = [disk EXCEPT ![f] = fileOnDisk(clock, imps, <<>>, <<>>)]
  /\ clock' = clock + 1
  /\ edits' = edits + 1
  /\ dirty' = dirty \cup {f}
  /\ UNCHANGED <<cache, nodes, edges, reverseEdges, program, testFiles,
                 initialized, lastCall, trav>>
  /\ UNCHANGED <<analysis, score, update, probe, boot, hooks>>

DeleteFile(f) ==
  /\ edits < MaxEdits
  /\ disk[f].exists
  /\ disk' = [disk EXCEPT ![f] = NoFile]
  /\ clock' = clock + 1
  /\ edits' = edits + 1
  /\ dirty' = dirty \cup {f}
  /\ UNCHANGED <<cache, nodes, edges, reverseEdges, program, testFiles,
                 initialized, lastCall, trav>>
  /\ UNCHANGED <<analysis, score, update, probe, boot, hooks>>

\* utimes: the modification time is set back (to 0) or forward (to now)
Utimes(f, t) ==
  /\ edits < MaxEdits
  /\ disk[f].exists
  /\ t # disk[f].mtime
  /\ disk' = [disk EXCEPT ![f].mtime = t]
  /\ clock' = clock + 1
  /\ edits' = edits + 1
  /\ UNCHANGED <<dirty, cache, nodes, edges, reverseEdges, program, testFiles,
                 initialized, lastCall, trav>>
  /\ UNCHANGED <<analysis, score, update, probe, boot, hooks>>

\* an entry of the nodes array of a cache file whose objects are not nodes:
\* {"version": 1, "nodes": [["/r/src/old.ts", {"lastModified": 1}]]}
StrayEntry == <<"/r/src/old.ts", [lastModified |-> 1]>>
\* the cache file is truncated, loses its edges array, is replaced by JSON of
\* another shape, gets another version tag or is removed, or the cache
\* directory becomes read-only
DamageCache(kind) ==
  /\ edits < MaxEdits
  /\ kind # "readonly" => cache.present
  /\ cache' = IF kind = "removed" THEN [NoCache EXCEPT !.writable = cache.writable]
              ELSE IF kind = "readonly" THEN [cache EXCEPT !.writable = FALSE]
              ELSE IF kind = "version" THEN [cache EXCEPT !.version = 2]
              ELSE IF kind = "otherShape"
                   THEN [cache EXCEPT !.shape = "noEdges", !.nodes = <<StrayEntry>>]
                   ELSE [cache EXCEPT !.shape = kind]
  /\ clock' = clock + 1
  /\ edits' = edits + 1
  /\ UNCHANGED <<disk, dirty, nodes, edges, reverseEdges, program, testFiles,
                 initialized, lastCall, trav>>
  /\ UNCHANGED <<analysis, score, update, probe, boot, hooks>>

(***************************************************************************)
(* The session.                                                            *)
(***************************************************************************)
\* new Ripple(rootDir): a new process over the same disk and cache file
NewSession ==
  /\ initialized
  /\ nodes' = <<>>
  /\ edges' = <<>>
  /\ reverseEdges' = <<>>
  /\ program' = NoProgram
  /\ testFiles' = {}
  /\ initialized' = FALSE
  /\ lastCall' = NoCall
  /\ UNCHANGED <<disk, clock, edits, dirty, cache, trav>>
  /\ UNCHANGED <<analysis, score, update, probe, boot, hooks>>

\* variant of the gate: it never throws
ensureInitializedNever(flag) == FALSE
\* Ripple.ensureInitialized throws unless the flag is set
ensureInitializedThrows(flag) == ~ flag

\* Ripple.initialize({useCache})
Initialize(useCache) ==
  LET tryCache == useCache /\ cacheEnabled
      loaded == loadCache(graph, disk, cache)
      built == build(IF tryCache THEN loaded.graph ELSE graph, disk)
      call == [NoCall EXCEPT
                 !.op = "initialize", !.outcome = "ok", !.at = edits,
                 !.fresh = (nodes = <<>>),
                 !.builtAt = IF tryCache /\ loaded.ok THEN -1 ELSE edits,
                 !.cacheAge = IF tryCache /\ cache.present
                              THEN edits - cache.savedAt ELSE -1,
                 !.cacheBy = IF tryCache THEN cache.savedBy ELSE "none",
                 !.cacheResult = IF ~ tryCache THEN "unused"
                                 ELSE IF ~ cache.present THEN "absent"
                                 ELSE IF cache.shape # "ok" \/ cache.version # 1
                                      THEN "rejected"
                                 ELSE IF loaded.ok THEN "valid" ELSE "stale"]
  IN /\ IF tryCache /\ loadCacheThrows(cache)
        THEN \* the rejection of loadCache leaves initialize
             /\ lastCall' = [call EXCEPT !.outcome = "error", !.builtAt = -1]
             /\ UNCHANGED <<nodes, edges, reverseEdges, program, cache, dirty,
                            testFiles, initialized>>
        ELSE IF tryCache /\ loaded.ok
        THEN /\ nodes' = loaded.graph.nodes
             /\ edges' = loaded.graph.edges
             /\ reverseEdges' = loaded.graph.reverseEdges
             /\ testFiles' = discoverTestFiles(disk)
             /\ initialized' = TRUE
             /\ lastCall' = call
             /\ UNCHANGED <<program, cache, dirty>>
        ELSE /\ nodes' = built.graph.nodes
             /\ edges' = built.graph.edges
             /\ reverseEdges' = built.graph.reverseEdges
             /\ program' = built.program
             /\ dirty' = {}
             /\ IF built.threw \/ (cacheEnabled /\ saveCacheThrows(cache))
                THEN \* the rejection of build leaves initialize
                     /\ lastCall' = [call EXCEPT !.outcome = "error", !.builtAt = -1]
                     /\ UNCHANGED <<cache, testFiles, initialized>>
                ELSE /\ cache' = IF cacheEnabled
                                 THEN saveCache(cache, built.graph, edits, "build")
                                 ELSE cache
                     /\ testFiles' = discoverTestFiles(disk)
                     /\ initialized' = TRUE
                     /\ lastCall' = call
     /\ UNCHANGED <<disk, clock, edits, trav>>
     /\ UNCHANGED <<analysis, score, update, probe, boot, hooks>>

\* Ripple.updateGraph(changedFiles)
UpdateGraph(changedFiles) ==
  /\ IF ensureInitializedThrows(initialized)
     THEN /\ lastCall' = [NoCall EXCEPT !.op = "updateGraph", !.outcome = "error",
                                        !.at = edits]
          /\ UNCHANGED <<nodes, edges, reverseEdges, program, cache, dirty>>
     ELSE LET upd == updateIncremental(program, graph, disk, changedFiles)
          IN /\ nodes' = upd.graph.nodes
             /\ edges' = upd.graph.edges
             /\ reverseEdges' = upd.graph.reverseEdges
             /\ program' = upd.program
             /\ cache' = IF cacheEnabled /\ ~ upd.threw /\ ~ saveCacheThrows(cache)
                         THEN saveCache(cache, upd.graph, edits, "update") ELSE cache
             /\ dirty' = dirty \ Range(changedFiles)
             /\ lastCall' = [NoCall EXCEPT
                               !.op = "updateGraph",
                               !.outcome =
                                 IF upd.threw \/ (cacheEnabled /\ saveCacheThrows(cache))
                                 THEN "error" ELSE "ok",
                               !.at = edits, !.batch = changedFiles,
                               !.builtAt = lastCall.builtAt]
  /\ UNCHANGED <<disk, clock, edits, testFiles, initialized, trav>>
  /\ UNCHANGED <<analysis, score, update, probe, boot, hooks>>

Next ==
  \/ \E f \in AllPaths, imps \in ImportLists : WriteFile(f, imps)
  \/ \E f \in AllPaths : DeleteFile(f)
  \/ \E f \in AllPaths, t \in {0, clock} : Utimes(f, t)
  \/ \E kind \in {"unparsable", "noEdges", "otherShape", "version", "removed",
                  "readonly"} :
        DamageCache(kind)
  \/ NewSession
  \/ \E useCache \in BOOLEAN : Initialize(useCache)
  \/ \E changedFiles \in Batches : UpdateGraph(changedFiles)

Spec == Init /\ [][Next]_vars

(***************************************************************************)
(* Queries on an initialized session: the path-taking calls of the API and *)
(* the transitive traversals, over every project of the bounded family.    *)
(***************************************************************************)
QueryOps == {"analyzeFile", "quickRiskCheck", "getDependents",
             "getDependencies", "isTestFile"}

\* ensureInitialized, then the operation; value holds the paths the
\* operation reports (the direct dependents for the two analyses)
queryResult(op, p) ==
  IF ensureInitializedThrows(initialized) THEN [NoCall EXCEPT !.op = op, !.path = p, !.outcome = "error"]
  ELSE IF op = "analyzeFile"
  THEN IF ~ hasNode(graph, p)
       THEN [NoCall EXCEPT !.op = op, !.path = p, !.outcome = "error"]
       ELSE [NoCall EXCEPT !.op = op, !.path = p, !.outcome = "ok",
                           !.value = getDirectDependents(graph, p)]
  ELSE IF op = "quickRiskCheck"
  THEN LET deps == getDirectDependents(graph, p)
           tests == getTestsForFile(graph, testFiles, p)
       IN [NoCall EXCEPT !.op = op, !.path = p, !.outcome = "ok",
                         !.value = deps,
                         !.level = quickRiskLevel(Len(deps), Len(tests) > 0)]
  ELSE IF op = "getDependents"
  THEN [NoCall EXCEPT !.op = op, !.path = p, !.outcome = "ok",
                      !.value = getDirectDependents(graph, p)]
  ELSE IF op = "getDependencies"
  THEN [NoCall EXCEPT !.op = op, !.path = p, !.outcome = "ok",
                      !.value = getDirectDependencies(graph, p)]
  ELSE [NoCall EXCEPT !.op = op, !.path = p, !.outcome = "ok",
                      !.level = IF p \in testFiles THEN "true" ELSE "false"]

Query(op, p) ==
  /\ trav.pc # "running"
  /\ lastCall' = queryResult(op, p)
  /\ trav' = TravIdle
  /\ UNCHANGED <<disk, clock, edits, dirty, cache, nodes, edges, reverseEdges,
                 program, testFiles, initialized>>
  /\ UNCHANGED <<analysis, score, update, probe, boot, hooks>>

\* a call of getTransitiveDependents / getTransitiveDependencies
TravBegin(dir, start, maxDepth) ==
  /\ trav.pc # "running"
  /\ trav' = [TravIdle EXCEPT !.pc = "running", !.dir = dir, !.start = start,
                              !.maxDepth = maxDepth,
                              !.stack = <<frame(start, 0)>>]
  /\ lastCall' = [NoCall EXCEPT !.op = dir, !.path = start]
  /\ UNCHANGED <<disk, clock, edits, dirty, cache, nodes, edges, reverseEdges,
                 program, testFiles, initialized>>
  /\ UNCHANGED <<analysis, score, update, probe, boot, hooks>>

top == trav.stack[Len(trav.stack)]
popped == SubSeq(trav.stack, 1, Len(trav.stack) - 1)

\* variant of the entry of traverse: visited.add is left out
TravEnterNoMark ==
  /\ trav.pc = "running" /\ trav.stack # <<>> /\ ~ top.entered
  /\ IF skipNode(top.current, top.depth, trav.maxDepth, trav.visited)
     THEN trav' = [trav EXCEPT !.stack = popped]
     ELSE trav' = [trav EXCEPT
                     !.expanded = Append(@, top.current),
                     !.stack = Append(popped,
                        [top EXCEPT !.entered = TRUE,
                                    !.todo = adjacencyOf(graph, trav.dir, top.current)])]
  /\ UNCHANGED <<disk, clock, edits, dirty, cache, nodes, edges, reverseEdges,
                 program, testFiles, initialized, lastCall>>
  /\ UNCHANGED <<analysis, score, update, probe, boot, hooks>>

\* entry of traverse(current, depth): return at once, or mark visited and
\* start iterating the adjacency set
TravEnter ==
  /\ trav.pc = "running" /\ trav.stack # <<>> /\ ~ top.entered
  /\ IF skipNode(top.current, top.depth, trav.maxDepth, trav.visited)
     THEN trav' = [trav EXCEPT !.stack = popped]
     ELSE trav' = [trav EXCEPT
                     !.visited = @ \cup {top.current},
                     !.expanded = Append(@, top.current),
                     !.stack = Append(popped,
                        [top EXCEPT !.entered = TRUE,
                                    !.todo = adjacencyOf(graph, trav.dir, top.current)])]
  /\ UNCHANGED <<disk, clock, edits, dirty, cache, nodes, edges, reverseEdges,
                 program, testFiles, initialized, lastCall>>
  /\ UNCHANGED <<analysis, score, update, probe, boot, hooks>>

\* one iteration of the for loop over the adjacency set
TravLoop ==
  /\ trav.pc = "running" /\ trav.stack # <<>> /\ top.entered /\ top.todo # <<>>
  /\ LET dep == Head(top.todo)
         rest == Append(popped, [top EXCEPT !.todo = Tail(@)])
     IN IF pushesDep(dep, trav.visited)
        THEN trav' = [trav EXCEPT !.result = Append(@, dep),
                                  !.stack = Append(rest, frame(dep, top.depth + 1))]
        ELSE trav' = [trav EXCEPT !.stack = rest]
  /\ UNCHANGED <<disk, clock, edits, dirty, cache, nodes, edges, reverseEdges,
                 program, testFiles, initialized, lastCall>>
  /\ UNCHANGED <<analysis, score, update, probe, boot, hooks>>

\* the loop is exhausted: traverse returns to its caller
TravReturn ==
  /\ trav.pc = "running" /\ trav.stack # <<>> /\ top.entered /\ top.todo = <<>>
  /\ trav' = [trav EXCEPT !.stack = popped]
  /\ UNCHANGED <<disk, clock, edits, dirty, cache, nodes, edges, reverseEdges,
                 program, testFiles, initialized, lastCall>>
  /\ UNCHANGED <<analysis, score, update, probe, boot, hooks>>

\* the outermost traverse has returned: the function returns result
TravDone ==
  /\ trav.pc = "running" /\ trav.stack = <<>>
  /\ trav' = [trav EXCEPT !.pc = "done"]
  /\ lastCall' = [lastCall EXCEPT !.outcome = "ok", !.value = trav.result]
  /\ UNCHANGED <<disk, clock, edits, dirty, cache, nodes, edges, reverseEdges,
                 program, testFiles, initialized>>
  /\ UNCHANGED <<analysis, score, update, probe, boot, hooks>>

TravStep == TravEnter \/ TravLoop \/ TravReturn \/ TravDone

\* a project whose files hold any imports of the bounded family, initialized
\* by a full build in a new session
ProjectDisk(contents) ==
  [f \in DiskPaths |->
     fileOnDisk(1, IF f \in AllPaths THEN contents[f] ELSE <<>>, <<>>, <<>>)]

QueryInit ==
  \E contents \in [AllPaths -> TravImportLists] :
     LET d == ProjectDisk(contents)
         built == build(EmptyGraph, d)
     IN /\ disk = d
        /\ clock = 2
        /\ edits = 0
        /\ dirty = {}
        /\ cache = IF cacheEnabled THEN snapshot(built.graph) ELSE NoCache
        /\ nodes = built.graph.nodes
        /\ edges = built.graph.edges
        /\ reverseEdges = built.graph.reverseEdges
        /\ program = built.program
        /\ testFiles = discoverTestFiles(d)
        /\ initialized = TRUE
        /\ lastCall = [NoCall EXCEPT !.op = "initialize", !.outcome = "ok",
                                     !.fresh = TRUE, !.cacheResult = "absent"]
        /\ trav = TravIdle
        /\ analysis = NoAnalysis
        /\ score = NoScore
        /\ update = UpdateIdle
        /\ probe = NoProbe
        /\ boot = BootIdle
        /\ hooks = NoHooks

QueryNext ==
  \/ \E op \in QueryOps, p \in QueryPaths : Query(op, p)
  \/ \E dir \in {"dependents", "dependencies"}, start \in AllPaths,
        maxDepth \in 0..TravMaxDepth : TravBegin(dir, start, maxDepth)
  \/ TravEnter
  \/ TravLoop
  \/ TravReturn
  \/ TravDone

QuerySpec == QueryInit /\ [][QueryNext]_vars
\* traverse runs to completion once called
QueryLive == QuerySpec /\ WF_vars(TravStep)

(***************************************************************************)
(* Impact analyses on an initialized session, over projects whose files    *)
(* declare and import named symbols. An analysis reads the session and     *)
(* changes nothing of it: each behaviour makes one call, which leaves its  *)
(* result in analysis and its call of the scorer in score.                 *)
(***************************************************************************)
SymbolNames == <<"foo", "bar">>
\* the import statements the analysed files are written from
Statements ==
  <<importInfo("./a", <<"foo">>), importInfo("./a", <<"bar">>),
    importInfo("./a", <<"*">>), importInfo("./b.js", <<"bar">>)>>
StatementLists == {q \in seqsUpTo(Statements, MaxStatements) : noRepeat(q)}
ExportLists == {<<>>, <<"foo">>, <<"bar">>, <<"foo", "bar">>}
\* a.ts declares foo and bar and exports some of them; it may import b.ts
AnalysisDisk(importsA, exportsA, contents) ==
  [f \in DiskPaths |->
     IF f = FileA THEN fileOnDisk(1, importsA, SymbolNames, exportsA)
     ELSE IF f \in {FileB, FileT} THEN fileOnDisk(1, contents[f], <<>>, <<>>)
          ELSE fileOnDisk(1, <<>>, <<>>, <<>>)]

\* the ImpactAnalysis returned, or the error thrown
analysisOf(op, symbolName, filePath, maxDepth, result) ==
  IF result.outcome = "error"
  THEN [NoAnalysis EXCEPT !.op = op, !.symbol = symbolName, !.path = filePath,
                          !.maxDepth = maxDepth, !.outcome = "error"]
  ELSE [op |-> op, symbol |-> symbolName, path |-> filePath,
        maxDepth |-> maxDepth, outcome |-> "ok", target |-> result.target,
        directCallers |-> result.impact.directCallers,
        transitiveCallers |-> result.impact.transitiveCallers,
        untestedCallers |-> result.impact.untestedCallers,
        totalCallers |-> result.impact.totalCallers,
        renameLocations |-> IF op = "analyzeRename"
                            THEN renameLocations(result) ELSE <<>>,
        riskValue |-> result.impact.riskValue,
        riskLevel |-> result.impact.riskLevel,
        affectedTests |-> result.impact.affectedTests,
        summary |-> result.impact.summary]

\* the scorer after an analysis: called with the RiskInput of the analysis,
\* or not called when the analysis threw
scoreAfter(result) ==
  IF result.outcome = "ok" THEN scoreOf(result.impact.riskInput) ELSE score

\* Ripple.analyzeFile(filePath, {maxDepth})
AnalyzeFile(filePath, maxDepth) ==
  /\ initialized /\ analysis = NoAnalysis /\ ~ score.called
  /\ LET result == analyzeFileImpact(graph, testFiles, filePath, maxDepth)
     IN /\ analysis' = analysisOf("analyzeFile", "", filePath, maxDepth, result)
        /\ score' = scoreAfter(result)
  /\ UNCHANGED <<disk, clock, edits, dirty, cache, nodes, edges, reverseEdges,
                 program, testFiles, initialized, lastCall, trav, update, probe, boot, hooks>>

\* Ripple.analyzeSymbol(symbolName, filePath, {maxDepth})
AnalyzeSymbol(symbolName, filePath, maxDepth) ==
  /\ initialized /\ analysis = NoAnalysis /\ ~ score.called
  /\ LET result == analyzeSymbolImpact(graph, testFiles, symbolName, filePath,
                                       maxDepth)
     IN /\ analysis' = analysisOf("analyzeSymbol", symbolName, filePath,
                                  maxDepth, result)
        /\ score' = scoreAfter(result)
  /\ UNCHANGED <<disk, clock, edits, dirty, cache, nodes, edges, reverseEdges,
                 program, testFiles, initialized, lastCall, trav, update, probe, boot, hooks>>

\* Ripple.analyzeRename(oldName, newName, filePath): analyzeSymbolImpact with
\* no options, then the rename locations
AnalyzeRename(oldName, filePath) ==
  /\ initialized /\ analysis = NoAnalysis /\ ~ score.called
  /\ LET result == analyzeSymbolImpact(graph, testFiles, oldName, filePath,
                                       DefaultMaxDepth)
     IN /\ analysis' = analysisOf("analyzeRename", oldName, filePath,
                                  DefaultMaxDepth, result)
        /\ score' = scoreAfter(result)
  /\ UNCHANGED <<disk, clock, edits, dirty, cache, nodes, edges, reverseEdges,
                 program, testFiles, initialized, lastCall, trav, update, probe, boot, hooks>>

AnalysisInit ==
  \E importsA \in {<<>>, <<Statements[4]>>}, exportsA \in ExportLists,
     contents \in [{FileB, FileT} -> StatementLists] :
     LET d == AnalysisDisk(importsA, exportsA, contents)
         built == build(EmptyGraph, d)
     IN /\ disk = d
        /\ clock = 2
        /\ edits = 0
        /\ dirty = {}
        /\ cache = IF cacheEnabled THEN snapshot(built.graph) ELSE NoCache
        /\ nodes = built.graph.nodes
        /\ edges = built.graph.edges
        /\ reverseEdges = built.graph.reverseEdges
        /\ program = built.program
        /\ testFiles = discoverTestFiles(d)
        /\ initialized = TRUE
        /\ lastCall = [NoCall EXCEPT !.op = "initialize", !.outcome = "ok",
                                     !.fresh = TRUE, !.cacheResult = "absent"]
        /\ trav = TravIdle
        /\ analysis = NoAnalysis
        /\ score = NoScore
        /\ update = UpdateIdle
        /\ probe = NoProbe
        /\ boot = BootIdle
        /\ hooks = NoHooks

AnalysisNext ==
  \/ \E filePath \in AllPaths \cup {NoSuchFile}, maxDepth \in 0..TravMaxDepth :
        AnalyzeFile(filePath, maxDepth)
  \/ \E symbolName \in Range(SymbolNames) \cup {"baz"},
        filePath \in {FileA, NoSuchFile}, maxDepth \in 0..TravMaxDepth :
        AnalyzeSymbol(symbolName, filePath, maxDepth)
  \/ \E oldName \in Range(SymbolNames) \cup {"baz"},
        filePath \in {FileA, NoSuchFile} : AnalyzeRename(oldName, filePath)

AnalysisSpec == AnalysisInit /\ [][AnalysisNext]_vars

(***************************************************************************)
(* Quick risk checks on sessions over projects in which up to              *)
(* MaxDependents files import a.ts, with or without a.test.ts beside it.   *)
(***************************************************************************)
depFile(i) == "/r/src/d" \o ToString(i) \o ".ts"
depFiles(c) == [i \in 1..c |-> depFile(i)]
\* the project: a.ts, the files d1.ts .. dc.ts importing it, and the test
FanInDisk(c, withTest) ==
  [f \in {FileA} \cup (IF withTest THEN {FileT} ELSE {}) \cup Range(depFiles(c)) |->
     fileOnDisk(1, IF f \in {FileA, FileT} THEN <<>>
                   ELSE namespaceImports(<<"./a">>), <<>>, <<>>)]
\* the graph build leaves for that project
FanInGraph(d, c, withTest) ==
  LET files == <<FileA>> \o (IF withTest THEN <<FileT>> ELSE <<>>) \o depFiles(c)
      node(f) == toGraphNode(d, [imports |-> extractImports(f, d[f].imports),
                                 symbols |-> <<>>, exports |-> <<>>], f)
  IN [nodes |-> [k \in 1..Len(files) |-> <<files[k], node(files[k])>>],
      edges |-> [i \in 1..c |-> <<depFile(i), <<FileA>>>>],
      reverseEdges |-> IF c = 0 THEN <<>> ELSE <<<<FileA, depFiles(c)>>>>]

FanInInit ==
  \E c \in 0..MaxDependents, withTest \in BOOLEAN :
     LET d == FanInDisk(c, withTest)
         g == FanInGraph(d, c, withTest)
     IN /\ disk = d
        /\ clock = 2
        /\ edits = 0
        /\ dirty = {}
        /\ cache = IF cacheEnabled THEN snapshot(g) ELSE NoCache
        /\ nodes = g.nodes
        /\ edges = g.edges
        /\ reverseEdges = g.reverseEdges
        /\ program = [NoProgram EXCEPT !.loaded = TRUE]
        /\ testFiles = discoverTestFiles(d)
        /\ initialized = TRUE
        /\ lastCall = [NoCall EXCEPT !.op = "initialize", !.outcome = "ok",
                                     !.fresh = TRUE, !.cacheResult = "absent"]
        /\ trav = TravIdle
        /\ analysis = NoAnalysis
        /\ score = NoScore
        /\ update = UpdateIdle
        /\ probe = NoProbe
        /\ boot = BootIdle
        /\ hooks = NoHooks

FanInNext == \E p \in QueryPaths : Query("quickRiskCheck", p)

FanInSpec == FanInInit /\ [][FanInNext]_vars

(***************************************************************************)
(* The risk scorer on any RiskInput, and the analyses that call it, on a   *)
(* session over one project.                                               *)
(***************************************************************************)
\* caller counts: every small count, and counts in the upper ranges of the
\* caller and transitive factors
CallerCounts == (0..MaxCallers) \cup {16, 31, 131}
UntestedCounts == (0..(2 * MaxCallers + 1)) \cup {300}
CoveragePercentages == {0, 50, 100}
\* the percentages are read only when the TestMapping carries coverage
TestStates ==
  {[tests |-> ts, lines |-> 0, branches |-> 0] :
     ts \in {"nomapping", "none", "nocoverage"}}
  \cup {[tests |-> "coverage", lines |-> lp, branches |-> bp] :
          lp \in CoveragePercentages, bp \in CoveragePercentages}
RiskInputs ==
  {[direct |-> nd, transitive |-> nt, untested |-> nu, critical |-> nc,
    fileCritical |-> fc, tests |-> t.tests, lines |-> t.lines,
    branches |-> t.branches] :
     nd \in CallerCounts, nt \in CallerCounts, nu \in UntestedCounts,
     nc \in 0..(MaxCallers + 1), fc \in BOOLEAN, t \in TestStates}

\* RiskScorer.calculateRisk(input)
CalculateRisk(input) ==
  /\ ~ score.called /\ analysis = NoAnalysis
  /\ score' = scoreOf(input)
  /\ UNCHANGED <<disk, clock, edits, dirty, cache, nodes, edges, reverseEdges,
                 program, testFiles, initialized, lastCall, trav,
                 analysis, update, probe, boot, hooks>>

\* a.ts exports foo and bar; b.ts imports foo from it, a.test.ts imports
\* b.ts and bar from a.ts
RiskDisk ==
  AnalysisDisk(<<>>, <<"foo", "bar">>,
               [f \in {FileB, FileT} |->
                  IF f = FileB THEN <<Statements[1]>>
                  ELSE <<Statements[4], Statements[2]>>])

RiskInit ==
  LET built == build(EmptyGraph, RiskDisk)
  IN /\ disk = RiskDisk
     /\ clock = 2
     /\ edits = 0
     /\ dirty = {}
     /\ cache = IF cacheEnabled THEN snapshot(built.graph) ELSE NoCache
     /\ nodes = built.graph.nodes
     /\ edges = built.graph.edges
     /\ reverseEdges = built.graph.reverseEdges
     /\ program = built.program
     /\ testFiles = discoverTestFiles(RiskDisk)
     /\ initialized = TRUE
     /\ lastCall = [NoCall EXCEPT !.op = "initialize", !.outcome = "ok",
                                  !.fresh = TRUE, !.cacheResult = "absent"]
     /\ trav = TravIdle
     /\ analysis = NoAnalysis
     /\ score = NoScore
     /\ update = UpdateIdle
     /\ probe = NoProbe
     /\ boot = BootIdle
     /\ hooks = NoHooks

RiskNext ==
  \/ ~ score.called /\ \E input \in RiskInputs : CalculateRisk(input)
  \/ \E filePath \in AllPaths, maxDepth \in 0..TravMaxDepth :
        AnalyzeFile(filePath, maxDepth)
  \/ \E symbolName \in Range(SymbolNames), maxDepth \in 0..TravMaxDepth :
        AnalyzeSymbol(symbolName, FileA, maxDepth)

RiskSpec == RiskInit /\ [][RiskNext]_vars

(***************************************************************************)
(* updateGraph in flight beside the queries of other asynchronous callers. *)
(* One thread runs every caller: an activation runs from one await to the  *)
(* next without interruption, and another caller runs only while every     *)
(* activation stands at an await. update.pc is the position of the         *)
(* updateGraph activation, update.qpc that of a query of another caller;   *)
(* reads holds the graph as each synchronous segment of the query found    *)
(* it. Each behaviour makes one updateGraph call and one query.            *)
(***************************************************************************)
\* variant: the activation also yields between the statements of the loop
\* and before buildEdges, as if parseFile were awaited
suspendedEveryStep(pc) ==
  pc \in {"loop", "saveCache", "awaitSaveCache", "awaitUpdateIncremental"}
\* the awaits of an updateGraph call: await this.saveCache() in
\* updateIncremental, await this.graphBuilder.updateIncremental(...) in
\* updateGraph
suspended(pc) == pc \in {"awaitSaveCache", "awaitUpdateIncremental"}
\* updateGraph has been called and has not returned
inFlight == update.pc \notin {"idle", "returned"}
\* another caller can run
runnable == ~ inFlight \/ suspended(update.pc)

\* Ripple.updateGraph(changedFiles): ensureInitialized, then the call of
\* updateIncremental
UpdateBegin(changedFiles) ==
  /\ initialized /\ update.pc = "idle"
  /\ update' = [update EXCEPT
                  !.pc = "loop", !.changedFiles = changedFiles, !.i = 1,
                  !.before = graph,
                  !.after = updateIncremental(program, graph, disk,
                                              changedFiles).graph]
  /\ UNCHANGED <<disk, clock, edits, dirty, cache, nodes, edges, reverseEdges,
                 program, testFiles, initialized, lastCall, trav,
                 analysis, score, probe, boot, hooks>>

\* one iteration of for (const file of changedFiles)
UpdateLoop ==
  /\ update.pc = "loop" /\ update.i <= Len(update.changedFiles)
  /\ LET file == update.changedFiles[update.i]
         st == parseInto([program |-> program,
                          graph |-> removeEdgesForFile(graph, file)],
                         disk, file, TRUE)
     IN /\ nodes' = st.graph.nodes
        /\ edges' = st.graph.edges
        /\ reverseEdges' = st.graph.reverseEdges
        /\ program' = st.program
  /\ update' = [update EXCEPT !.i = @ + 1]
  /\ UNCHANGED <<disk, clock, edits, dirty, cache, testFiles, initialized,
                 lastCall, trav, analysis, score, probe, boot, hooks>>

\* this.buildEdges() after the loop
UpdateBuildEdges ==
  /\ update.pc = "loop" /\ update.i > Len(update.changedFiles)
  /\ LET g == buildEdges(disk, graph)
     IN /\ edges' = g.edges
        /\ reverseEdges' = g.reverseEdges
  /\ update' = [update EXCEPT !.pc = IF cacheEnabled THEN "saveCache"
                                     ELSE "awaitUpdateIncremental"]
  /\ UNCHANGED <<disk, clock, edits, dirty, cache, nodes, program, testFiles,
                 initialized, lastCall, trav, analysis, score, probe, boot, hooks>>

\* the call this.saveCache(): its body runs, then updateIncremental awaits
\* the promise it returned
UpdateSaveCache ==
  /\ update.pc = "saveCache"
  /\ cache' = saveCache(cache, graph, edits, "update")
  /\ update' = [update EXCEPT !.pc = "awaitSaveCache"]
  /\ UNCHANGED <<disk, clock, edits, dirty, nodes, edges, reverseEdges,
                 program, testFiles, initialized, lastCall, trav,
                 analysis, score, probe, boot, hooks>>

\* updateIncremental resumes and returns this.graph; updateGraph awaits it
UpdateResume ==
  /\ update.pc = "awaitSaveCache"
  /\ update' = [update EXCEPT !.pc = "awaitUpdateIncremental"]
  /\ UNCHANGED <<disk, clock, edits, dirty, cache, nodes, edges, reverseEdges,
                 program, testFiles, initialized, lastCall, trav,
                 analysis, score, probe, boot, hooks>>

\* updateGraph resumes and returns
UpdateReturn ==
  /\ update.pc = "awaitUpdateIncremental"
  /\ update' = [update EXCEPT !.pc = "returned"]
  /\ dirty' = dirty \ Range(update.changedFiles)
  /\ lastCall' = [NoCall EXCEPT !.op = "updateGraph", !.outcome = "ok",
                                !.at = edits]
  /\ UNCHANGED <<disk, clock, edits, cache, nodes, edges, reverseEdges,
                 program, testFiles, initialized, trav, analysis, score, probe, boot, hooks>>

\* the queries that return without awaiting, and the analyses
SyncQueries == {"getDependents", "getDependencies", "getStats", "quickRiskCheck"}
AsyncQueries == {"analyzeFile", "analyzeSymbol"}
\* the awaits a query passes: none, or await this.pathsToCallers(...) twice
\* in an analysis that does not throw (of an exported symbol, for
\* analyzeSymbol(SymbolNames[1], p))
awaitsOf(op, g, p) ==
  IF op = "analyzeFile" THEN (IF hasNode(g, p) THEN 2 ELSE 0)
  ELSE IF op = "analyzeSymbol"
  THEN IF ~ hasNode(g, p) THEN 0
       ELSE LET node == mapGet(g.nodes, p)
            IN IF /\ \E sym \in Range(node.symbols) : sym.name = SymbolNames[1]
                  /\ isExported(node, SymbolNames[1])
               THEN 2 ELSE 0
  ELSE 0

\* another caller issues a query: its first segment runs
QueryBegin(op, p) ==
  /\ initialized /\ runnable /\ update.qpc = "idle"
  /\ LET n == awaitsOf(op, graph, p)
     IN update' = [update EXCEPT
                     !.qop = op, !.qpath = p, !.qleft = n,
                     !.qInFlight = inFlight, !.reads = <<graph>>,
                     !.qpc = IF n = 0 THEN "done" ELSE "suspended"]
  /\ UNCHANGED <<disk, clock, edits, dirty, cache, nodes, edges, reverseEdges,
                 program, testFiles, initialized, lastCall, trav,
                 analysis, score, probe, boot, hooks>>

\* the analysis resumes after an await: its next segment runs
QueryResume ==
  /\ runnable /\ update.qpc = "suspended"
  /\ update' = [update EXCEPT
                  !.qleft = @ - 1, !.reads = Append(@, graph),
                  !.qpc = IF update.qleft = 1 THEN "done" ELSE "suspended"]
  /\ UNCHANGED <<disk, clock, edits, dirty, cache, nodes, edges, reverseEdges,
                 program, testFiles, initialized, lastCall, trav,
                 analysis, score, probe, boot, hooks>>

\* files change before the call; the session is the one of RiskInit
UpdateNext ==
  \/ /\ update = UpdateIdle
     /\ \/ \E f \in AllPaths, imps \in ImportLists : WriteFile(f, imps)
        \/ \E f \in AllPaths : DeleteFile(f)
  \/ \E changedFiles \in Batches : UpdateBegin(changedFiles)
  \/ UpdateLoop
  \/ UpdateBuildEdges
  \/ UpdateSaveCache
  \/ UpdateResume
  \/ UpdateReturn
  \/ \E op \in SyncQueries \cup AsyncQueries, p \in {FileA, FileB, NoSuchFile} :
        QueryBegin(op, p)
  \/ QueryResume

UpdateSpec == RiskInit /\ [][UpdateNext]_vars

(***************************************************************************)
(* resolveImport over the directories in which candidates compete: each    *)
(* behaviour resolves one import on one set of files.                      *)
(***************************************************************************)
\* /r/src/m is a file or a directory, never both
consistent(files) ==
  ~ ("/r/src/m" \in files /\ \E f \in files : "/r/src/m" \in containingDirs[f])
ModuleFileSets ==
  {files \in SUBSET ModulePaths : Cardinality(files) <= MaxFiles /\ consistent(files)}
\* the importers and the chosen files
ModuleDisk(files, source) ==
  [f \in ModulePaths \cup Importers |->
     IF f \in Importers
     THEN fileOnDisk(1, namespaceImports(<<source>>), <<>>, <<>>)
     ELSE IF f \in files THEN fileOnDisk(1, <<>>, <<>>, <<>>) ELSE NoFile]
\* the nodes the parse loop of build leaves for the discovered files
moduleIncluded == {f \in Range(ModuleListing) : matchesInclude(f)}
RECURSIVE moduleNodes(_, _)
moduleNodes(d, i) ==
  IF i > Len(ModuleListing) THEN <<>>
  ELSE LET f == ModuleListing[i]
       IN (IF isFile(d, f) /\ f \in moduleIncluded
           THEN <<<<f, toGraphNode(d, d[f], f)>>>>
           ELSE <<>>) \o moduleNodes(d, i + 1)

\* this.resolveImport(importSource, fromFile)
ResolveImport(importSource, fromFile) ==
  /\ ~ probe.called
  /\ probe' = [called |-> TRUE, importSource |-> importSource,
               fromFile |-> fromFile,
               result |-> resolveImport(disk, importSource, fromFile),
               built |-> probe.built]
  /\ UNCHANGED <<disk, clock, edits, dirty, cache, nodes, edges, reverseEdges,
                 program, testFiles, initialized, lastCall, trav,
                 analysis, score, update, boot, hooks>>

\* this.buildEdges() at the end of build
BuildEdges ==
  /\ ~ probe.built
  /\ LET g == buildEdges(disk, graph)
     IN /\ edges' = g.edges
        /\ reverseEdges' = g.reverseEdges
  /\ probe' = [probe EXCEPT !.built = TRUE]
  /\ UNCHANGED <<disk, clock, edits, dirty, cache, nodes, program, testFiles,
                 initialized, lastCall, trav, analysis, score, update, boot, hooks>>

ResolveInit ==
  \E files \in ModuleFileSets, source \in Range(ModuleSources) :
     /\ disk = ModuleDisk(files, source)
     /\ clock = 2
     /\ edits = 0
     /\ dirty = {}
     /\ cache = NoCache
     /\ nodes = moduleNodes(ModuleDisk(files, source), 1)
     /\ edges = <<>>
     /\ reverseEdges = <<>>
     /\ program = NoProgram
     /\ testFiles = {}
     /\ initialized = FALSE
     /\ lastCall = NoCall
     /\ trav = TravIdle
     /\ analysis = NoAnalysis
     /\ score = NoScore
     /\ update = UpdateIdle
     /\ probe = NoProbe
     /\ boot = BootIdle
     /\ hooks = NoHooks

ResolveNext ==
  \/ \E importSource \in Range(ModuleSources), fromFile \in Importers :
        ResolveImport(importSource, fromFile)
  \/ BuildEdges

ResolveSpec == ResolveInit /\ [][ResolveNext]_vars

(***************************************************************************)
(* The test mapper over projects with test files in every place the three  *)
(* strategies look at.                                                     *)
(***************************************************************************)
\* the files of the project, b.ts and a.test.ts holding any imports of the
\* bounded family, and the chosen test files (which import nothing)
MapperDisk(contents, tests) ==
  [f \in DiskPaths \cup Range(ExtraTests) |->
     IF f \in {FileB, FileT} THEN fileOnDisk(1, contents[f], <<>>, <<>>)
     ELSE IF f \in DiskPaths \/ f \in tests THEN fileOnDisk(1, <<>>, <<>>, <<>>)
          ELSE NoFile]

\* testMapper.getTestsForFile(sourceFile)
GetTestsForFile(sourceFile) ==
  /\ initialized /\ lastCall.op = "initialize"
  /\ lastCall' = [NoCall EXCEPT
                    !.op = "getTestsForFile", !.path = sourceFile,
                    !.outcome = "ok",
                    !.value = getTestsForFile(graph, testFiles, sourceFile)]
  /\ UNCHANGED <<disk, clock, edits, dirty, cache, nodes, edges, reverseEdges,
                 program, testFiles, initialized, trav, analysis, score,
                 update, probe, boot, hooks>>

MapperInit ==
  \E contents \in [{FileB, FileT} -> TravImportLists],
     tests \in SUBSET Range(ExtraTests) :
     LET d == MapperDisk(contents, tests)
         built == build(EmptyGraph, d)
     IN /\ disk = d
        /\ clock = 2
        /\ edits = 0
        /\ dirty = {}
        /\ cache = IF cacheEnabled THEN snapshot(built.graph) ELSE NoCache
        /\ nodes = built.graph.nodes
        /\ edges = built.graph.edges
        /\ reverseEdges = built.graph.reverseEdges
        /\ program = built.program
        /\ testFiles = discoverTestFiles(d)
        /\ initialized = TRUE
        /\ lastCall = [NoCall EXCEPT !.op = "initialize", !.outcome = "ok",
                                     !.fresh = TRUE, !.cacheResult = "absent"]
        /\ trav = TravIdle
        /\ analysis = NoAnalysis
        /\ score = NoScore
        /\ update = UpdateIdle
        /\ probe = NoProbe
        /\ boot = BootIdle
        /\ hooks = NoHooks

MapperNext == \E sourceFile \in QueryPaths : GetTestsForFile(sourceFile)

MapperSpec == MapperInit /\ [][MapperNext]_vars

(***************************************************************************)
(* Configuration of a session: the constructor merges DEFAULT_CONFIG, the  *)
(* first project config file that parses and the overrides of the caller.  *)
(* A JavaScript object is a function from its own keys to their values; a  *)
(* key that is absent reads as undefined.                                  *)
(***************************************************************************)
\* the fields of RippleConfig carried by the model
DEFAULT_CONFIG ==
  [riskThresholds |-> riskThresholds, sensitivity |-> "medium",
   cacheEnabled |-> cacheEnabled]
\* { ...a, ...b }
spread(a, b) ==
  [k \in DOMAIN a \cup DOMAIN b |-> IF k \in DOMAIN b THEN b[k] ELSE a[k]]
configPaths == <<"/r/.ripplerc", "/r/.ripplerc.json", "/r/ripple.config.json">>
NoConfigFile == [exists |-> FALSE, parses |-> FALSE, json |-> <<>>]
Unparsable == [exists |-> TRUE, parses |-> FALSE, json |-> <<>>]
configFile(json) == [exists |-> TRUE, parses |-> TRUE, json |-> json]
\* JSON.parse(fs.readFileSync(configPath)) throws
parseThrows(d, configPath) == ~ d[configPath].parses

RECURSIVE loadConfigFrom(_, _, _)
loadConfigFrom(d, overrides, i) ==
  IF i > Len(configPaths) THEN spread(DEFAULT_CONFIG, overrides)
  ELSE IF d[configPaths[i]].exists /\ ~ parseThrows(d, configPaths[i])
       THEN spread(spread(DEFAULT_CONFIG, d[configPaths[i]].json), overrides)
       ELSE loadConfigFrom(d, overrides, i + 1)
\* Ripple.loadConfig
loadConfig(d, overrides) == loadConfigFrom(d, overrides, 1)

\* score >= thresholds.<name>: a comparison with undefined is false
atLeast(tenths, thresholds, name) ==
  name \in DOMAIN thresholds /\ tenths >= 10 * thresholds[name]
\* RiskScorer.determineRiskLevel under the configuration of the session, on
\* a score given in tenths
determineRiskLevelUnder(config, tenths) ==
  IF atLeast(tenths, config.riskThresholds, "high") THEN "CRITICAL"
  ELSE IF atLeast(tenths, config.riskThresholds, "medium") THEN "HIGH"
       ELSE IF atLeast(tenths, config.riskThresholds, "low") THEN "MEDIUM"
            ELSE "LOW"

\* the objects a config file or the caller supplies
PartialConfigs ==
  {<<>>,
   [cacheEnabled |-> FALSE],
   [sensitivity |-> "high"],
   [riskThresholds |-> [low |-> 2, medium |-> 4, high |-> 6]],
   [riskThresholds |-> [high |-> 8]],
   [sensitivity |-> "low", riskThresholds |-> [low |-> 1, medium |-> 2, high |-> 9]]}
ConfigFiles == {NoConfigFile, Unparsable} \cup {configFile(c) : c \in PartialConfigs}
ScoreTenths == {0, 15, 20, 30, 45, 50, 65, 70, 80, 85, 100}

NoSession == [op |-> "none", overrides |-> <<>>, config |-> <<>>,
              tenths |-> -1, level |-> ""]

\* new Ripple(rootDir, overrides)
Construct(overrides) ==
  /\ lastCall.op = "none"
  /\ lastCall' = [lastCall EXCEPT !.op = "construct", !.overrides = overrides,
                                  !.config = loadConfig(disk, overrides)]
  /\ UNCHANGED <<disk, clock, edits, dirty, cache, nodes, edges, reverseEdges,
                 program, testFiles, initialized, trav, analysis, score,
                 update, probe, boot, hooks>>

\* the scorer of the session gives the level of a score
DetermineRiskLevel(tenths) ==
  /\ lastCall.op = "construct"
  /\ lastCall' = [lastCall EXCEPT !.op = "determineRiskLevel", !.tenths = tenths,
                     !.level = determineRiskLevelUnder(lastCall.config, tenths)]
  /\ UNCHANGED <<disk, clock, edits, dirty, cache, nodes, edges, reverseEdges,
                 program, testFiles, initialized, trav, analysis, score,
                 update, probe, boot, hooks>>

ConfigInit ==
  /\ disk \in [Range(configPaths) -> ConfigFiles]
  /\ clock = 2
  /\ edits = 0
  /\ dirty = {}
  /\ cache = NoCache
  /\ nodes = <<>>
  /\ edges = <<>>
  /\ reverseEdges = <<>>
  /\ program = NoProgram
  /\ testFiles = {}
  /\ initialized = FALSE
  /\ lastCall = NoSession
  /\ trav = TravIdle
  /\ analysis = NoAnalysis
  /\ score = NoScore
  /\ update = UpdateIdle
  /\ probe = NoProbe
  /\ boot = BootIdle
  /\ hooks = NoHooks

ConfigNext ==
  \/ \E overrides \in PartialConfigs : Construct(overrides)
  \/ \E tenths \in ScoreTenths : DetermineRiskLevel(tenths)

ConfigSpec == ConfigInit /\ [][ConfigNext]_vars

(***************************************************************************)
(* The first initialize of a session, one step per synchronous segment of  *)
(* its activation (it yields at await loadCache, at the globs of build and *)
(* of the test mapper, at await saveCache and at await loadCoverageData),  *)
(* beside the calls other callers make while it stands at an await.        *)
(***************************************************************************)
\* b.ts imports a.ts and a.test.ts imports b.ts; b.ts may be missing
GateDisks == {InitDisk, [InitDisk EXCEPT ![FileB] = NoFile]}
\* no cache file, or the one a build over the whole project wrote
GateCaches == {NoCache, snapshot(build(EmptyGraph, InitDisk).graph)}

RECURSIVE totalEdges(_, _)
totalEdges(edgeMap, i) ==
  IF i > Len(edgeMap) THEN 0 ELSE Len(edgeMap[i][2]) + totalEdges(edgeMap, i + 1)
\* variant: the files are counted on disk, not in the node table
getStatsOfDisk(g, tf) ==
  [totalFiles |-> Len(discoverFiles(disk)), totalEdges |-> totalEdges(g.edges, 1),
   totalTestFiles |-> Cardinality(tf)]
\* Ripple.getStats: the counts of the graph and of the test mapper
getStats(g, tf) ==
  [totalFiles |-> Len(g.nodes), totalEdges |-> totalEdges(g.edges, 1),
   totalTestFiles |-> Cardinality(tf)]

\* the counts as the caller prints them
reported(stats) ==
  <<ToString(stats.totalFiles), ToString(stats.totalEdges),
    ToString(stats.totalTestFiles)>>

\* initialize is called: loadCache runs to its end, or build reaches its
\* first glob
BootBegin(useCache) ==
  /\ boot.pc = "idle" /\ ~ initialized
  /\ IF useCache /\ cacheEnabled
     THEN LET loaded == loadCache(graph, disk, cache)
          IN /\ nodes' = loaded.graph.nodes
             /\ edges' = loaded.graph.edges
             /\ reverseEdges' = loaded.graph.reverseEdges
             /\ boot' = [pc |-> "loadCache", useCache |-> useCache,
                         cacheLoaded |-> loaded.ok]
     ELSE /\ boot' = [pc |-> "discoverFiles", useCache |-> useCache,
                      cacheLoaded |-> FALSE]
          /\ UNCHANGED <<nodes, edges, reverseEdges>>
  /\ UNCHANGED <<disk, clock, edits, dirty, cache, program, testFiles,
                 initialized, lastCall, trav, analysis, score, update, probe, hooks>>

\* after await loadCache: the test mapper starts on a loaded cache, build
\* starts otherwise
BootAfterLoadCache ==
  /\ boot.pc = "loadCache"
  /\ IF boot.cacheLoaded
     THEN testFiles' = {} /\ boot' = [boot EXCEPT !.pc = "discoverTests"]
     ELSE UNCHANGED testFiles /\ boot' = [boot EXCEPT !.pc = "discoverFiles"]
  /\ UNCHANGED <<disk, clock, edits, dirty, cache, nodes, edges, reverseEdges,
                 program, initialized, lastCall, trav, analysis, score,
                 update, probe, hooks>>

\* after the globs of discoverFiles: the parse loop, buildEdges and the
\* write of saveCache
BootBuild ==
  /\ boot.pc = "discoverFiles"
  /\ LET built == build(graph, disk)
     IN /\ nodes' = built.graph.nodes
        /\ edges' = built.graph.edges
        /\ reverseEdges' = built.graph.reverseEdges
        /\ program' = built.program
        /\ dirty' = {}
        /\ IF built.threw \/ (cacheEnabled /\ saveCacheThrows(cache))
           THEN UNCHANGED cache /\ boot' = [boot EXCEPT !.pc = "failed"]
           ELSE /\ cache' = IF cacheEnabled
                            THEN saveCache(cache, built.graph, edits, "build")
                            ELSE cache
                /\ boot' = [boot EXCEPT !.pc = "saveCache"]
  /\ UNCHANGED <<disk, clock, edits, testFiles, initialized, lastCall, trav,
                 analysis, score, update, probe, hooks>>

\* after await build: testMapper.initialize clears the test files and
\* reaches its first glob
BootAfterBuild ==
  /\ boot.pc = "saveCache"
  /\ testFiles' = {}
  /\ boot' = [boot EXCEPT !.pc = "discoverTests"]
  /\ UNCHANGED <<disk, clock, edits, dirty, cache, nodes, edges, reverseEdges,
                 program, initialized, lastCall, trav, analysis, score,
                 update, probe, hooks>>

\* after the globs of discoverTestFiles: the test files are in, coverage
\* data is read
BootDiscoverTests ==
  /\ boot.pc = "discoverTests"
  /\ testFiles' = discoverTestFiles(disk)
  /\ boot' = [boot EXCEPT !.pc = "loadCoverage"]
  /\ UNCHANGED <<disk, clock, edits, dirty, cache, nodes, edges, reverseEdges,
                 program, initialized, lastCall, trav, analysis, score,
                 update, probe, hooks>>

\* after await testMapper.initialize: this.initialized = true
BootReturn ==
  /\ boot.pc = "loadCoverage"
  /\ initialized' = TRUE
  /\ boot' = [boot EXCEPT !.pc = "done"]
  /\ UNCHANGED <<disk, clock, edits, dirty, cache, nodes, edges, reverseEdges,
                 program, testFiles, lastCall, trav, analysis, score,
                 update, probe, hooks>>

GatedOps == {"analyzeSymbol", "analyzeRename", "getStats"}
\* the files of the callers an analysis lists, direct then transitive
callerPaths(result) ==
  [k \in 1..Len(result.impact.directCallers) |->
     result.impact.directCallers[k].location.filePath]
    \o [k \in 1..Len(result.impact.transitiveCallers) |->
          result.impact.transitiveCallers[k].location.filePath]
\* analyzeSymbol, analyzeRename (of the name foo) and getStats: the gate,
\* then the operation
gatedResult(op, p) ==
  IF ensureInitializedThrows(initialized)
  THEN [NoCall EXCEPT !.op = op, !.path = p, !.outcome = "error"]
  ELSE IF op = "getStats"
       THEN [NoCall EXCEPT !.op = op, !.path = p, !.outcome = "ok",
                           !.value = reported(getStats(graph, testFiles))]
       ELSE LET result == analyzeSymbolImpact(graph, testFiles, "foo", p,
                                              DefaultMaxDepth)
            IN IF result.outcome = "error"
               THEN [NoCall EXCEPT !.op = op, !.path = p, !.outcome = "error"]
               ELSE [NoCall EXCEPT !.op = op, !.path = p, !.outcome = "ok",
                                   !.value = callerPaths(result),
                                   !.level = result.impact.riskLevel]

GatedCall(op, p) ==
  /\ lastCall' = gatedResult(op, p)
  /\ UNCHANGED <<disk, clock, edits, dirty, cache, nodes, edges, reverseEdges,
                 program, testFiles, initialized, trav, analysis, score,
                 update, probe, boot, hooks>>

GateInit ==
  /\ disk \in GateDisks
  /\ clock = 2
  /\ edits = 0
  /\ dirty = {}
  /\ cache \in GateCaches
  /\ nodes = <<>>
  /\ edges = <<>>
  /\ reverseEdges = <<>>
  /\ program = NoProgram
  /\ testFiles = {}
  /\ initialized = FALSE
  /\ lastCall = NoCall
  /\ trav = TravIdle
  /\ analysis = NoAnalysis
  /\ score = NoScore
  /\ update = UpdateIdle
  /\ probe = NoProbe
  /\ boot = BootIdle
  /\ hooks = NoHooks

GateNext ==
  \/ \E useCache \in BOOLEAN : BootBegin(useCache)
  \/ BootAfterLoadCache
  \/ BootBuild
  \/ BootAfterBuild
  \/ BootDiscoverTests
  \/ BootReturn
  \/ \E op \in QueryOps, p \in {FileA, FileT} : Query(op, p)
  \/ \E op \in GatedOps : GatedCall(op, FileA)
  \/ UpdateGraph(<<FileA>>)

GateSpec == GateInit /\ [][GateNext]_vars

(***************************************************************************)
(* Updates of projects in which b.ts is missing when the graph is built and *)
(* may appear later: an import can then resolve to a file on disk that the  *)
(* graph has no node for.                                                   *)
(***************************************************************************)
EdgeInit ==
  \E contents \in [AllPaths -> ImportLists] :
     LET d == [ProjectDisk(contents) EXCEPT ![FileB] = NoFile]
         built == build(EmptyGraph, d)
     IN /\ disk = d
        /\ clock = 2
        /\ edits = 0
        /\ dirty = {}
        /\ cache = IF cacheEnabled THEN snapshot(built.graph) ELSE NoCache
        /\ nodes = built.graph.nodes
        /\ edges = built.graph.edges
        /\ reverseEdges = built.graph.reverseEdges
        /\ program = built.program
        /\ testFiles = discoverTestFiles(d)
        /\ initialized = TRUE
        /\ lastCall = [NoCall EXCEPT !.op = "initialize", !.outcome = "ok",
                                     !.fresh = TRUE, !.cacheResult = "absent",
                                     !.builtAt = 0]
        /\ trav = TravIdle
        /\ analysis = NoAnalysis
        /\ score = NoScore
        /\ update = UpdateIdle
        /\ probe = NoProbe
        /\ boot = BootIdle
        /\ hooks = NoHooks

EdgeNext ==
  \/ \E f \in AllPaths, imps \in ImportLists : WriteFile(f, imps)
  \/ \E f \in AllPaths : DeleteFile(f)
  \/ \E f \in AllPaths : UpdateGraph(<<f>>)

EdgeSpec == EdgeInit /\ [][EdgeNext]_vars

(***************************************************************************)
(* ClaudeCodeHooks: the hooks an editor calls before an edit, over a Ripple *)
(* session of their own. The ImpactAnalysis ripple.analyzeFile resolves to  *)
(* is given by the RiskInput the impact calculator derives for the file;    *)
(* the call rejects when the session is not initialized or the file has no  *)
(* node.                                                                    *)
(***************************************************************************)
\* the config of an instance: { ...DEFAULT_HOOK_CONFIG, ...config }
HookConfigs ==
  {[DEFAULT_HOOK_CONFIG EXCEPT !.enabled = e, !.autoAnalyze = a,
                               !.blockOnHighRisk = b, !.riskThreshold = t] :
     e \in BOOLEAN, a \in BOOLEAN, b \in BOOLEAN,
     t \in {"LOW", "MEDIUM", "HIGH", "CRITICAL"}}
\* the inputs the analyses of a file may give the scorer
HookInputs ==
  {input \in
     {[direct |-> nd, transitive |-> 0, untested |-> nu, critical |-> nc,
       fileCritical |-> fc, tests |-> ts, lines |-> 0, branches |-> 0] :
        nd \in {0, 1, 31}, nu \in {0, 1, 31}, nc \in {0, 1}, fc \in BOOLEAN,
        ts \in {"none", "nocoverage"}} :
     input.untested <= input.direct /\ input.critical <= input.direct}
\* the fields of the ImpactAnalysis of a file that the hooks read
analysisFor(input) ==
  [riskScore |-> [value |-> calculateRisk(input).value,
                  level |-> calculateRisk(input).level],
   untestedCallers |-> input.untested,
   summary |-> [totalCallers |-> input.direct + input.transitive,
                untestedCallers |-> input.untested,
                criticalPathCallers |-> input.critical]]
\* await this.ripple.analyzeFile(filePath)
analyzeFile(filePath, input) ==
  IF ensureInitializedThrows(initialized)
  THEN [threw |-> TRUE,
        message |-> "Ripple not initialized. Call initialize() first."]
  ELSE IF ~ hasNode(graph, filePath)
       THEN [threw |-> TRUE,
             message |-> "File not found in dependency graph: " \o filePath]
       ELSE [threw |-> FALSE, analysis |-> analysisFor(input)]

levels == <<"LOW", "MEDIUM", "HIGH", "CRITICAL">>
\* Array.prototype.indexOf
indexOf(array, x) ==
  IF \E i \in 1..Len(array) : array[i] = x
  THEN (CHOOSE i \in 1..Len(array) :
          array[i] = x /\ \A j \in 1..(i - 1) : array[j] # x) - 1
  ELSE -1
\* variant: a level equal to the threshold is not acceptable
isRiskAcceptableBelow(config, level) ==
  indexOf(levels, level) < indexOf(levels, config.riskThreshold)
\* isRiskAcceptable
isRiskAcceptable(config, level) ==
  indexOf(levels, level) <= indexOf(levels, config.riskThreshold)
\* needsConfirmation
needsConfirmation(a) ==
  \/ a.riskScore.level = "CRITICAL"
  \/ a.riskScore.level = "HIGH"
  \/ a.summary.criticalPathCallers > 0

\* variant of the catch block: the edit is held back when blocking is on
onFailureBlocks(config, filePath, message) ==
  [NoHookResult EXCEPT !.called = TRUE, !.filePath = filePath,
                       !.proceed = ~ config.blockOnHighRisk,
                       !.warnings = <<"Analysis failed: " \o message>>]
\* the catch block of preEditHook
onFailure(config, filePath, message) ==
  [NoHookResult EXCEPT !.called = TRUE, !.filePath = filePath,
                       !.warnings = <<"Analysis failed: " \o message>>]
\* the try block of preEditHook after the analysis has been cached
onAnalysis(config, filePath, a) ==
  LET highRisk == a.riskScore.level = "CRITICAL" \/ a.riskScore.level = "HIGH"
      w1 == IF highRisk
            THEN <<"High risk change: " \o ToString(a.summary.totalCallers)
                     \o " callers affected">>
            ELSE <<>>
      w2 == IF a.untestedCallers > 0
            THEN <<ToString(a.untestedCallers) \o " callers have no test coverage">>
            ELSE <<>>
      w3 == IF a.summary.criticalPathCallers > 0
            THEN <<ToString(a.summary.criticalPathCallers)
                     \o " callers are in critical paths">>
            ELSE <<>>
  IN [called |-> TRUE, filePath |-> filePath,
      proceed |-> ~ config.blockOnHighRisk
                    \/ isRiskAcceptable(config, a.riskScore.level),
      hasAnalysis |-> TRUE, analysis |-> a,
      warnings |-> w1 \o w2 \o w3,
      requiresConfirmation |-> highRisk \/ a.summary.criticalPathCallers > 0]

\* ClaudeCodeHooks.initialize
HookInitialize ==
  /\ hooks.config.enabled
  /\ Initialize(TRUE)

\* ClaudeCodeHooks.preEditHook(filePath)
PreEditHook(filePath, input) ==
  LET config == hooks.config
      outcome == analyzeFile(filePath, input)
  IN /\ hooks' =
          IF ~ config.enabled \/ ~ config.autoAnalyze
          THEN [hooks EXCEPT !.result = [NoHookResult EXCEPT !.called = TRUE,
                                                            !.filePath = filePath]]
          ELSE IF outcome.threw
               THEN [hooks EXCEPT !.result =
                                    onFailure(config, filePath, outcome.message)]
               ELSE [hooks EXCEPT
                       !.analysisCache = mapSet(@, filePath, outcome.analysis),
                       !.result = onAnalysis(config, filePath, outcome.analysis)]
     /\ UNCHANGED <<disk, clock, edits, dirty, cache, nodes, edges, reverseEdges,
                    program, testFiles, initialized, lastCall, trav,
                    analysis, score, update, probe, boot>>

HookInit ==
  \E config \in HookConfigs :
     /\ disk = InitDisk
     /\ clock = 2
     /\ edits = 0
     /\ dirty = {}
     /\ cache = NoCache
     /\ nodes = <<>>
     /\ edges = <<>>
     /\ reverseEdges = <<>>
     /\ program = NoProgram
     /\ testFiles = {}
     /\ initialized = FALSE
     /\ lastCall = NoCall
     /\ trav = TravIdle
     /\ analysis = NoAnalysis
     /\ score = NoScore
     /\ update = UpdateIdle
     /\ probe = NoProbe
     /\ boot = BootIdle
     /\ hooks = [NoHooks EXCEPT !.config = config]

HookNext ==
  \/ HookInitialize
  \/ \E filePath \in {FileA, NoSuchFile}, input \in HookInputs :
        PreEditHook(filePath, input)

HookSpec == HookInit /\ [][HookNext]_vars

(***************************************************************************)
(* The queries of an initialized session beside changes on disk and         *)
(* updateGraph calls.                                                       *)
(***************************************************************************)
ReadNext ==
  \/ \E f \in AllPaths, imps \in ImportLists : WriteFile(f, imps)
  \/ \E f \in AllPaths : DeleteFile(f)
  \/ \E op \in QueryOps, p \in AllPaths : Query(op, p)
  \/ \E op \in GatedOps : GatedCall(op, FileA)
  \/ \E changedFiles \in Batches : UpdateGraph(changedFiles)

ReadSpec == RiskInit /\ [][ReadNext]_vars

(***************************************************************************)
(* Properties.                                                             *)
(***************************************************************************)
\* node set and both adjacency relations agree (order of insertion aside)
sameGraph(g, h) ==
  /\ mapKeys(g.nodes) = mapKeys(h.nodes)
  /\ pairsOf(g.edges) = pairsOf(h.edges)
  /\ pairsOf(g.reverseEdges) = pairsOf(h.reverseEdges)
\* what a new session with no cache file builds over the files now on disk
freshBuild == build(EmptyGraph, disk).graph
\* no file has changed since the last call returned
sinceCall == lastCall.at = edits

\* C1: adjacency symmetry. In every state of an initialized session (after a
\* full build or a cache load, and after any updateGraph calls), B is in the
\* forward set of A iff A is in the reverse set of B.
C1_AdjacencySymmetry ==
  initialized =>
    \A a, b \in QueryPaths :
       (b \in Range(getDirectDependencies(graph, a)))
         <=> (a \in Range(getDirectDependents(graph, b)))
\* an updateGraph after a change on disk has left a graph with edges
C1_Witness ==
  /\ initialized /\ lastCall.op = "updateGraph" /\ lastCall.outcome = "ok"
  /\ edits > 0 /\ edges # <<>>

\* C2: incremental update is equivalent to a rebuild. After updateGraph has
\* been given every path changed on disk, the node set and both adjacency
\* maps are those a fresh build over the current files produces.
C2_UpdateEqualsRebuild ==
  (lastCall.op = "updateGraph" /\ lastCall.outcome = "ok" /\ sinceCall
     /\ dirty = {})
    => sameGraph(graph, freshBuild)

\* C3: a stale cache forces a full rebuild. When initialize of a new session
\* finds the snapshot stale, the graph afterwards is the graph initialize
\* produces with no cache file; nothing of the snapshot survives.
C3_StaleCacheFullRebuild ==
  (lastCall.op = "initialize" /\ lastCall.cacheResult = "stale"
     /\ lastCall.fresh /\ sinceCall)
    => sameGraph(graph, freshBuild)

\* C4: cache invalidation. loadCache reports a snapshot valid only if every
\* recorded file still exists with exactly the recorded modification time.
C4_CacheInvalidation ==
  (lastCall.op = "initialize" /\ lastCall.cacheResult = "valid" /\ sinceCall)
    => \A i \in 1..Len(cache.nodes) :
          /\ isFile(disk, cache.nodes[i][1])
          /\ disk[cache.nodes[i][1]].mtime = cache.nodes[i][2].lastModified

travDone(dir) == trav.pc = "done" /\ trav.dir = dir
directDependentsOfStart == Range(getDirectDependents(graph, trav.start))

\* C5 as stated: every direct dependent of F is in
\* getTransitiveDependents(F, maxDepth), self-importing files included.
C5_ClosureSuperset ==
  travDone("dependents") => directDependentsOfStart \subseteq Range(trav.result)
\* C5 amended: every direct dependent of F other than F itself is in
\* getTransitiveDependents(F, maxDepth), for every maxDepth >= 0.
C5_ClosureSupersetButStart ==
  travDone("dependents")
    => (directDependentsOfStart \ {trav.start}) \subseteq Range(trav.result)
\* maxDepth 0 on a file that imports itself and has another dependent
C5_Witness ==
  /\ travDone("dependents") /\ trav.maxDepth = 0
  /\ trav.start \in directDependentsOfStart
  /\ directDependentsOfStart # {trav.start}

\* C6: no file appears twice in the list returned by a transitive traversal.
C6_NoDuplicates == trav.pc = "done" => noRepeat(trav.result)

\* C7: the start file is never in its own transitive result, in either
\* direction, whatever the cycles through it.
C7_StartExcluded ==
  trav.pc \in {"running", "done"} => trav.start \notin Range(trav.result)
\* a traversal has returned files from a start file that is in its own
\* adjacency set
C7_Witness ==
  /\ trav.pc = "done" /\ trav.result # <<>>
  /\ trav.start \in Range(adjacencyOf(graph, trav.dir, trav.start))

\* the files importing some file of the set s
dependentsOfSet(s) == {p[2] : p \in {q \in pairsOf(reverseEdges) : q[1] \in s}}
RECURSIVE hops(_, _)
hops(s, k) == IF k = 0 THEN s ELSE hops(dependentsOfSet(s), k - 1)
\* the files at reverse-edge distance 1..d from f
withinHops(f, d) == (UNION {hops({f}, k) : k \in 1..d}) \ {f}

\* C8: the depth bound is exact. getTransitiveDependents(F, d) returns, as a
\* set, exactly the files at reverse-edge distance 1..d from F.
C8_DepthExact ==
  travDone("dependents")
    => Range(trav.result) = withinHops(trav.start, trav.maxDepth)

\* C9: a traversal never iterates the adjacency set of a file twice, and
\* every traversal that starts returns.
C9_Terminates ==
  /\ [](noRepeat(trav.expanded))
  /\ (trav.pc = "running") ~> (trav.pc = "done")
\* a traversal has returned after following a cycle back to its start file
C9_Witness ==
  /\ trav.pc = "done"
  /\ \E x \in Range(trav.expanded) :
        x # trav.start /\ trav.start \in Range(adjacencyOf(graph, trav.dir, x))

\* C10: on a path with no node in the graph every path-taking call of an
\* initialized session fails with an error.
C10_UnknownPathFails ==
  (lastCall.op \in QueryOps /\ initialized /\ ~ hasNode(graph, lastCall.path))
    => lastCall.outcome = "error"

\* C11: isTestFile(p) is true exactly for the files on disk at initialization
\* that match a test pattern, and false for every other path, whether or not
\* p is a node of the graph.
C11_IsTestFileExact ==
  (lastCall.op = "isTestFile" /\ lastCall.outcome = "ok")
    => ((lastCall.level = "true")
          <=> (matchesTestPattern(lastCall.path) /\ isFile(disk, lastCall.path)))
\* a test file outside the include patterns, not a node, is reported as one
C11_Witness ==
  /\ lastCall.op = "isTestFile" /\ lastCall.level = "true"
  /\ ~ matchesInclude(lastCall.path) /\ ~ hasNode(graph, lastCall.path)

\* the callers of the last analysis, the import statement a caller stands
\* for, and what it imports
resultCallers == analysis.directCallers \o analysis.transitiveCallers
callerLocations == [k \in 1..Len(resultCallers) |-> resultCallers[k].location]
importAt(loc) == mapGet(nodes, loc.filePath).imports[loc.line]
namesSymbol(imp, symbolName) ==
  \E spec \in Range(imp.specifiers) : spec = symbolName \/ spec = "*"
importsFile(imp, filePath) ==
  resolveImport(disk, imp.source, imp.location.filePath) = filePath
targetExported ==
  /\ analysis.outcome = "ok"
  /\ analysis.symbol \in Range(mapGet(nodes, analysis.path).exports)

\* C12: for an exported symbol S of F, every Caller of analyzeSymbol(S, F),
\* direct or transitive, stands for an import statement of F that names S or
\* is a wildcard import.
C12_CallersNameSymbol ==
  (analysis.op = "analyzeSymbol" /\ targetExported)
    => \A k \in 1..Len(callerLocations) :
          /\ importsFile(importAt(callerLocations[k]), analysis.path)
          /\ namesSymbol(importAt(callerLocations[k]), analysis.symbol)

\* the import statements of the graph that import the symbol from the file
importSites(symbolName, filePath) ==
  {imp \in UNION {Range(nodes[i][2].imports) : i \in 1..Len(nodes)} :
     importsFile(imp, filePath) /\ namesSymbol(imp, symbolName)}

\* C13: for an exported symbol imported at N import statements, analyzeRename
\* returns N + 1 rename locations: the definition of the symbol, then the
\* locations of the direct callers, then those of the transitive callers.
C13_RenameAccounting ==
  (analysis.op = "analyzeRename" /\ targetExported)
    => /\ Len(analysis.renameLocations)
            = Cardinality(importSites(analysis.symbol, analysis.path)) + 1
       /\ analysis.renameLocations = <<analysis.target>> \o callerLocations

\* C14: no two callers of one analysis result carry the same location.
C14_CallersDistinct ==
  analysis.outcome = "ok" => noRepeat(callerLocations)

\* C15: a symbol that is declared but not exported has no callers, even when
\* other files import its file.
C15_PrivateSymbolNoCallers ==
  (analysis.op = "analyzeSymbol" /\ analysis.outcome = "ok" /\ ~ targetExported)
    => /\ analysis.directCallers = <<>>
       /\ analysis.transitiveCallers = <<>>
       /\ analysis.untestedCallers = <<>>
       /\ analysis.totalCallers = 0
\* analyzeSymbol has returned for a private symbol of a file with dependents
C15_Witness ==
  /\ analysis.op = "analyzeSymbol" /\ analysis.outcome = "ok"
  /\ ~ targetExported
  /\ getDirectDependents(graph, analysis.path) # <<>>

\* C16: quickRiskCheck follows the rule table over the number c of direct
\* dependents and hasTests, read in order: c > 20 and no tests CRITICAL; else
\* c > 10 or no tests HIGH; else c > 5 MEDIUM; else LOW. A file with no tests
\* is never LOW or MEDIUM.
C16_QuickRuleTable ==
  (lastCall.op = "quickRiskCheck" /\ lastCall.outcome = "ok")
    => LET c == Len(getDirectDependents(graph, lastCall.path))
           hasTests == getTestsForFile(graph, testFiles, lastCall.path) # <<>>
       IN /\ (c > 20 /\ ~ hasTests) => lastCall.level = "CRITICAL"
          /\ (~ (c > 20 /\ ~ hasTests) /\ (c > 10 \/ ~ hasTests))
               => lastCall.level = "HIGH"
          /\ (hasTests /\ c > 5 /\ c <= 10) => lastCall.level = "MEDIUM"
          /\ (hasTests /\ c <= 5) => lastCall.level = "LOW"
          /\ ~ hasTests => lastCall.level \notin {"LOW", "MEDIUM"}
\* 25 dependents and no tests: CRITICAL
C16_Witness ==
  /\ lastCall.op = "quickRiskCheck" /\ lastCall.level = "CRITICAL"
  /\ Len(lastCall.value) = 25
  /\ getTestsForFile(graph, testFiles, lastCall.path) = <<>>

\* the RiskInput of the last calculateRisk call
scoreInput ==
  [direct |-> score.direct, transitive |-> score.transitive,
   untested |-> score.untested, critical |-> score.critical,
   fileCritical |-> score.fileCritical, tests |-> score.tests,
   lines |-> score.lines, branches |-> score.branches]
RiskLevels == {"LOW", "MEDIUM", "HIGH", "CRITICAL"}

\* C17: the value calculateRisk returns lies in [0, 10] (0..100 tenths) for
\* every RiskInput, and every analyzeFile / analyzeSymbol result carries a
\* risk value in [0, 10] and one of the four levels.
C17_ScoreBounds ==
  /\ score.called => (score.value \in 0..100 /\ score.level \in RiskLevels)
  /\ analysis.outcome = "ok"
       => (analysis.riskValue \in 0..100 /\ analysis.riskLevel \in RiskLevels)
\* a weighted sum above 10 has been clamped
C17_Witness ==
  /\ score.called /\ score.value = 100
  /\ weightedSum(scoreInput) > 10 * 100 * units(scoreInput)

\* the level the thresholds give a value in tenths
levelOfValue(tenths) ==
  IF tenths >= 10 * riskThresholds.high THEN "CRITICAL"
  ELSE IF tenths >= 10 * riskThresholds.medium THEN "HIGH"
       ELSE IF tenths >= 10 * riskThresholds.low THEN "MEDIUM"
            ELSE "LOW"

\* C18: the level of a RiskScore is the level the thresholds give its
\* returned (clamped and rounded) value.
C18_LevelOfReturnedValue ==
  score.called => score.level = levelOfValue(score.value)

\* C19: a query another caller issues while an updateGraph call is in flight
\* never reads the graph between the removal of a changed file's edges and
\* the end of buildEdges: every segment of it reads the graph as it was
\* before the call, or every segment reads the graph the call leaves.
C19_UpdateAtomic ==
  update.qInFlight
    => \/ \A k \in 1..Len(update.reads) : update.reads[k] = update.before
       \/ \A k \in 1..Len(update.reads) : update.reads[k] = update.after
\* an analysis issued in flight has run its three segments, beside an update
\* that changed the edges
C19_Witness ==
  /\ update.qInFlight /\ update.qpc = "done" /\ Len(update.reads) = 3
  /\ pairsOf(update.before.edges) # pairsOf(update.after.edges)

\* the order of the candidates of a relative specifier, written out
orderedCandidates(base) ==
  <<base \o ".ts", base \o ".tsx", base \o ".js", base \o ".jsx", base,
    base \o "/index.ts", base \o "/index.tsx", base \o "/index.js",
    base \o "/index.jsx", base \o "/index">>
\* the first of them that is a regular file, or null
firstRegularFile(d, importSource, fromFile) ==
  LET c == orderedCandidates(resolvePath(dirname(fromFile), stripJs(importSource)))
      hits == {i \in 1..Len(c) : isFile(d, c[i])}
  IN IF hits = {} THEN NoPath
     ELSE c[CHOOSE i \in hits : \A j \in hits : i <= j]

\* C20: a specifier starting with '.' resolves, after a trailing .js or .jsx
\* is stripped, to the first existing regular file among specifier+.ts,
\* +.tsx, +.js, +.jsx, the bare specifier, then specifier/index+.ts, +.tsx,
\* +.js, +.jsx, bare, each relative to the directory of the importing file,
\* and to nothing when none of them is one.
C20_ResolutionOrder ==
  (probe.called /\ startsWith(probe.importSource, "."))
    => probe.result = firstRegularFile(disk, probe.importSource, probe.fromFile)

\* the targets of the edges leaving a node of the graph as built
edgesFrom(filePath) ==
  IF mapHas(edges, filePath) THEN Range(mapGet(edges, filePath)) ELSE {}
\* a node all of whose imports are relative and without a regular file among
\* the candidates beside the importer
onlyUnresolvedRelative(i) ==
  /\ nodes[i][2].imports # <<>>
  /\ \A k \in 1..Len(nodes[i][2].imports) :
        /\ startsWith(nodes[i][2].imports[k].source, ".")
        /\ firstRegularFile(disk, nodes[i][2].imports[k].source, nodes[i][1]) = NoPath

\* C21: a relative specifier for which no candidate is a regular file beside
\* the importing file resolves to nothing and leaves no edge from the
\* importer, whatever exists under the source root.
C21_RelativeNeverSourceRoot ==
  /\ (probe.called /\ startsWith(probe.importSource, ".")
        /\ firstRegularFile(disk, probe.importSource, probe.fromFile) = NoPath)
       => probe.result = NoPath
  /\ probe.built =>
       \A i \in 1..Len(nodes) :
          onlyUnresolvedRelative(i) => edgesFrom(nodes[i][1]) = {}

\* the index files of the directory <source root>/m with a listed extension
indexFiles(d) == {f \in {"/r/src/m/index.ts", "/r/src/m/index.js"} : isFile(d, f)}
moduleFiles(d) ==
  {f \in {"/r/src/m.ts", "/r/src/m.tsx", "/r/src/m.js", "/r/src/m.jsx"} : isFile(d, f)}
firstIndexFile(d) ==
  IF isFile(d, "/r/src/m/index.ts") THEN "/r/src/m/index.ts" ELSE "/r/src/m/index.js"
directoryWithIndex(d) == indexFiles(d) # {} /\ moduleFiles(d) = {}

\* C22: the non-relative specifier m, where <source root>/m is a directory
\* holding an index file and no file <source root>/m.<ext> exists, resolves
\* to that index file, and a node importing m gets an edge to the index file
\* when the index file is a node.
C22_DirectoryResolvesToIndex ==
  /\ (probe.called /\ probe.importSource = "m" /\ directoryWithIndex(disk))
       => probe.result = firstIndexFile(disk)
  /\ (probe.built /\ directoryWithIndex(disk)) =>
       \A i \in 1..Len(nodes) :
          (/\ nodes[i][2].imports # <<>>
           /\ nodes[i][2].imports[1].source = "m"
           /\ mapHas(nodes, firstIndexFile(disk)))
            => firstIndexFile(disk) \in edgesFrom(nodes[i][1])

\* the graph a step leaves
graphAfter == [nodes |-> nodes', edges |-> edges', reverseEdges |-> reverseEdges']
\* the session has run a full build and no file has changed since
builtAndUnchanged == initialized /\ lastCall.builtAt = edits

\* C23: idempotent rebuild. A build or an updateGraph on any batch of paths,
\* run after a full build with no change to the files in between, leaves the
\* node set, the forward adjacency and the reverse adjacency as they were.
C23_IdempotentRebuild ==
  [][(builtAndUnchanged /\ initialized' /\ edits' = edits)
       => sameGraph(graphAfter, graph)]_vars

\* the graph recorded in the cache file
cachedGraph ==
  [nodes |-> cache.nodes, edges |-> cache.edges, reverseEdges |-> cache.reverseEdges]

\* C24: cache round trip. When initialize of a new session loads a snapshot
\* that saveCache wrote after a build, with no filesystem change since,
\* loadCache reports it
\* valid and the graph has the node set and both adjacency relations of the
\* graph that was saved.
C24_CacheRoundTrip ==
  (lastCall.op = "initialize" /\ lastCall.fresh /\ sinceCall
     /\ lastCall.cacheAge = 0 /\ lastCall.cacheBy = "build")
    => /\ lastCall.cacheResult = "valid"
       /\ sameGraph(graph, cachedGraph)

\* C25: cache failures are never fatal. initialize and updateGraph of an
\* initialized session succeed whatever the state of the cache file and of
\* its directory; when the file is missing, unreadable, malformed or of
\* another version, loadCache has returned false, initialize has run a full
\* build (every discovered file is a node) and the session is initialized.
C25_CacheFailuresNotFatal ==
  /\ lastCall.op = "initialize" => (lastCall.outcome = "ok" /\ initialized)
  /\ (lastCall.op = "updateGraph" /\ initialized) => lastCall.outcome = "ok"
  /\ (lastCall.op = "initialize" /\ lastCall.cacheResult \in {"absent", "rejected"})
       => /\ lastCall.builtAt = lastCall.at
          /\ sinceCall => mapKeys(freshBuild.nodes) \subseteq mapKeys(nodes)

\* the paths of the last updateGraph batch that are no longer files
deletedInBatch == {F \in Range(lastCall.batch) : ~ isFile(disk, F)}
\* F is the key or a member of some pair of the adjacency map
inAdjacency(m, F) == \E e \in pairsOf(m) : e[1] = F \/ e[2] = F

\* C26: deletion through incremental update. After updateGraph on a batch
\* containing a path F that no longer exists on disk, F is not a node, F is
\* neither a key with members nor a member of a forward or reverse adjacency
\* set, and analyzeFile(F) fails because F is not in the graph.
C26_DeletionThroughUpdate ==
  (lastCall.op = "updateGraph" /\ lastCall.outcome = "ok" /\ sinceCall)
    => \A F \in deletedInBatch :
          /\ ~ hasNode(graph, F)
          /\ ~ inAdjacency(edges, F)
          /\ ~ inAdjacency(reverseEdges, F)
          /\ analyzeFileImpact(graph, testFiles, F, DefaultMaxDepth).outcome = "error"
\* updateGraph was given a file deleted after the build that made it a node,
\* and other files still have edges
C26_Witness ==
  /\ lastCall.op = "updateGraph" /\ lastCall.outcome = "ok" /\ sinceCall
  /\ deletedInBatch # {}
  /\ lastCall.builtAt >= 0 /\ lastCall.builtAt < edits
  /\ edges # <<>>

\* the callers of the result whose file has no test file
callersWithoutTests ==
  SelectSeq(analysis.directCallers \o analysis.transitiveCallers,
    LAMBDA c : testMappingOf(graph, testFiles, c.location.filePath).testFiles = <<>>)

\* C27: untested callers and summary arithmetic. In every analysis result
\* untestedCallers is the sub-list of directCallers followed by
\* transitiveCallers whose file has no test file; the summary has
\* totalCallers = |directCallers| + |transitiveCallers|, untestedCallers =
\* |untestedCallers|, testedCallers = totalCallers - untestedCallers >= 0 and
\* filesAffected <= totalCallers.
C27_UntestedAndSummary ==
  analysis.outcome = "ok" =>
    /\ analysis.untestedCallers = callersWithoutTests
    /\ analysis.summary.totalCallers
         = Len(analysis.directCallers) + Len(analysis.transitiveCallers)
    /\ analysis.summary.untestedCallers = Len(analysis.untestedCallers)
    /\ analysis.summary.testedCallers
         = analysis.summary.totalCallers - analysis.summary.untestedCallers
    /\ analysis.summary.testedCallers >= 0
    /\ analysis.summary.filesAffected <= analysis.summary.totalCallers
\* a result with direct and transitive callers, some tested and some not
C27_Witness ==
  /\ analysis.outcome = "ok"
  /\ analysis.directCallers # <<>> /\ analysis.transitiveCallers # <<>>
  /\ analysis.summary.untestedCallers > 0
  /\ analysis.summary.testedCallers > 0

\* the import statements of a node that the base-name heuristic takes for
\* imports of the file T
matchingImports(p, T) ==
  SelectSeq(mapGet(nodes, p).imports, LAMBDA imp : matchTable[imp.source][T])
\* the specifier, without a trailing .js or .jsx, ends in the base name of T
endsInBaseName(source, T) ==
  endsWith(stripJs(source), stripSourceExt(basename(T)))
directDependentsOf(T) == dependentsOfSet({T})
\* every direct dependent of T has exactly one import the heuristic matches,
\* ending in the base name of T, and no other dependent of T has one
ordinaryCase(T) ==
  /\ \A p \in directDependentsOf(T) :
        /\ Len(matchingImports(p, T)) = 1
        /\ endsInBaseName(matchingImports(p, T)[1].source, T)
  /\ \A p \in withinHops(T, MaxFiles) \ directDependentsOf(T) :
        matchingImports(p, T) = <<>>

\* C28: direct caller count in the ordinary case. When each of the k direct
\* dependents of T has exactly one import matching T, ending in the base name
\* of T, and no transitive-only dependent has a matching import, analyzeFile(T)
\* returns k direct callers, no transitive caller and summary.totalCallers = k.
C28_OrdinaryCallerCount ==
  (analysis.op = "analyzeFile" /\ analysis.outcome = "ok"
     /\ ordinaryCase(analysis.path))
    => /\ Len(analysis.directCallers) = Cardinality(directDependentsOf(analysis.path))
       /\ analysis.transitiveCallers = <<>>
       /\ analysis.summary.totalCallers
            = Cardinality(directDependentsOf(analysis.path))
\* the scenario of one file imported by two others, one import each
C28_Witness ==
  /\ analysis.op = "analyzeFile" /\ analysis.outcome = "ok"
  /\ ordinaryCase(analysis.path)
  /\ Cardinality(directDependentsOf(analysis.path)) = 2
  /\ Len(analysis.directCallers) = 2
  /\ \E p \in directDependentsOf(analysis.path) : Len(mapGet(nodes, p).imports) = 2

\* the mappings of the direct dependents of T that have a test file, in the
\* order of the dependents
dependentMappings(T) ==
  LET deps == getDirectDependents(graph, T)
  IN SelectSeq([k \in 1..Len(deps) |-> testMappingOf(graph, testFiles, deps[k])],
               LAMBDA m : m.testFiles # <<>>)
\* the target's own mapping first, then those of its tested direct dependents
gatheredTests(T) == <<testMappingOf(graph, testFiles, T)>> \o dependentMappings(T)

\* C29: affectedTests composition. analyzeFile returns a non-empty
\* affectedTests whose first element is the TestMapping of the target, tested
\* or not, followed by the TestMapping of each direct dependent that has a
\* test file and of none that has no test file; analyzeSymbol gathers
\* affectedTests the same way.
C29_AffectedTests ==
  (analysis.op \in {"analyzeFile", "analyzeSymbol"} /\ analysis.outcome = "ok")
    => /\ analysis.affectedTests # <<>>
       /\ analysis.affectedTests = gatheredTests(analysis.path)

\* the test file beside a source file that the .test.ts convention names
siblingTest(f) == dirname(f) \o "/" \o parsedName(f) \o ".test.ts"
siblingTable == [f \in QueryPaths |-> siblingTest(f)]
\* the known test files each strategy finds for a source file
byConvention(f) == testFiles \cap Range(conventionTable[f])
byImport(f) == testFiles \cap dependentsOfSet({f})
byColocation(f) == testFiles \cap colocatedTable[f]

\* C30: convention discovery and deduplicated union. The testFiles returned
\* for a source file contain the known test file foo.test.ts beside foo.ts
\* whether or not one imports the other, are as a set the union of what the
\* naming convention, the import analysis and the co-location scan find, and
\* list no test file twice.
C30_ConventionAndUnion ==
  lastCall.op = "getTestsForFile" =>
    /\ siblingTable[lastCall.path] \in testFiles
         => siblingTable[lastCall.path] \in Range(lastCall.value)
    /\ Range(lastCall.value)
         = byConvention(lastCall.path) \cup byImport(lastCall.path)
             \cup byColocation(lastCall.path)
    /\ noRepeat(lastCall.value)
\* a.test.ts is found for a.ts though it imports nothing and nothing imports
\* it, next to test files of the directories __tests__ and tests beside
\* a.ts and of the __tests__ directory above
C30_Witness ==
  /\ lastCall.op = "getTestsForFile" /\ lastCall.path = FileA
  /\ FileT \in Range(lastCall.value)
  /\ ~ inAdjacency(edges, FileT)
  /\ byColocation(FileA) # {}
  /\ Cardinality(byConvention(FileA)) >= 3
\* the config file the merge takes: the first that exists and parses
RECURSIVE firstConfigFile(_, _)
firstConfigFile(d, i) ==
  IF i > Len(configPaths) THEN <<>>
  ELSE IF d[configPaths[i]].exists /\ d[configPaths[i]].parses
       THEN d[configPaths[i]].json
       ELSE firstConfigFile(d, i + 1)
\* the value of a top-level field through the three tiers
tiered(field) ==
  IF field \in DOMAIN lastCall.overrides THEN lastCall.overrides[field]
  ELSE IF field \in DOMAIN firstConfigFile(disk, 1)
       THEN firstConfigFile(disk, 1)[field]
       ELSE DEFAULT_CONFIG[field]
suppliesThreshold(object, t) ==
  "riskThresholds" \in DOMAIN object /\ t \in DOMAIN object.riskThresholds
\* the value of one risk threshold through the three tiers
tieredThreshold(t) ==
  IF suppliesThreshold(lastCall.overrides, t)
  THEN lastCall.overrides.riskThresholds[t]
  ELSE IF suppliesThreshold(firstConfigFile(disk, 1), t)
       THEN firstConfigFile(disk, 1).riskThresholds[t]
       ELSE DEFAULT_CONFIG.riskThresholds[t]

\* C31: layered configuration. Every field of the effective configuration,
\* and each of the three risk thresholds on its own, is the override of the
\* caller if given, else the value of the first project config file, else
\* the built-in default; and the scorer reads the thresholds so merged.
C31_LayeredConfig ==
  lastCall.op # "none" =>
    /\ \A field \in {"sensitivity", "cacheEnabled"} :
          lastCall.config[field] = tiered(field)
    /\ \A t \in {"low", "medium", "high"} :
          /\ t \in DOMAIN lastCall.config.riskThresholds
          /\ lastCall.config.riskThresholds[t] = tieredThreshold(t)

\* the named symbol is not in the symbol list of the analysed node
symbolMissing ==
  /\ hasNode(graph, analysis.path)
  /\ \A k \in 1..Len(mapGet(nodes, analysis.path).symbols) :
        mapGet(nodes, analysis.path).symbols[k].name # analysis.symbol

\* C32: analyzeSymbol and analyzeRename on a node whose symbol list lacks the
\* named symbol fail with an error, return nothing (no callers, no rename
\* locations, no call of the scorer) and leave the graph as the build left it.
C32_SymbolNotFoundAborts ==
  (analysis.op \in {"analyzeSymbol", "analyzeRename"} /\ symbolMissing)
    => /\ analysis.outcome = "error"
       /\ analysis.renameLocations = <<>>
       /\ analysis.directCallers = <<>> /\ analysis.transitiveCallers = <<>>
       /\ ~ score.called
       /\ graph = build(EmptyGraph, disk).graph
\* analyzeRename of a name a.ts does not declare, a.ts having dependents
C32_Witness ==
  /\ analysis.op = "analyzeRename" /\ analysis.outcome = "error"
  /\ symbolMissing
  /\ getDirectDependents(graph, analysis.path) # <<>>

\* the sum over a factor list of value x weight, in hundredths of a unit
RECURSIVE sumOfFactors(_, _)
sumOfFactors(factors, i) ==
  IF i > Len(factors) THEN 0
  ELSE factors[i].value * factors[i].weight + sumOfFactors(factors, i + 1)
\* a sum in hundredths of a unit clamped to [0, 10] and rounded to tenths
clampedTenths(sum, u) ==
  LET clamped == IF sum < 0 THEN 0 ELSE IF sum > 1000 * u THEN 1000 * u ELSE sum
  IN (10 * clamped + 50 * u) \div (100 * u)
FactorNames ==
  <<"Caller Count", "Untested Callers", "Critical Path", "Test Coverage",
    "Transitive Impact">>
DefaultWeights == <<25, 30, 25, 15, 5>>

\* C33: calculateRisk returns the five factors in the order Caller Count,
\* Untested Callers, Critical Path, Test Coverage, Transitive Impact with
\* the weights 0.25, 0.30, 0.25, 0.15, 0.05, and its value is the sum of
\* value x weight over them, clamped to [0, 10] and rounded to one decimal;
\* the score of an analysis is the score of the scorer on its input.
C33_WeightedCombination ==
  /\ score.called =>
       /\ Len(score.factors) = 5
       /\ \A k \in 1..5 : /\ score.factors[k].name = FactorNames[k]
                           /\ score.factors[k].weight = DefaultWeights[k]
       /\ score.value = clampedTenths(sumOfFactors(score.factors, 1),
                                      units(scoreInput))
  /\ analysis.outcome = "ok" =>
       /\ score.called
       /\ analysis.riskValue = score.value /\ analysis.riskLevel = score.level
\* every factor is positive and the sum was rounded, not clamped
C33_Witness ==
  /\ score.called
  /\ \A k \in 1..5 : score.factors[k].value > 0
  /\ sumOfFactors(score.factors, 1) < 1000 * units(scoreInput)
  /\ (10 * sumOfFactors(score.factors, 1)) % (100 * units(scoreInput)) # 0

\* the Caller Count formula for n callers, in 150ths of a point
callerFormula(n) ==
  IF n = 0 THEN 0
  ELSE IF n <= 5 THEN 300 + 60 * n
  ELSE IF n <= 15 THEN 600 + 30 * (n - 5)
  ELSE IF n <= 30 THEN 900 + 20 * (n - 15)
  ELSE 1200 + (IF 3 * (n - 30) > 300 THEN 300 ELSE 3 * (n - 30))
\* an input as the analyses build it: the untested and the critical callers
\* are among the callers, coverage percentages lie in 0..100
analysisShaped(input) ==
  /\ input.untested <= totalCallers(input)
  /\ input.critical <= totalCallers(input)
  /\ input.lines \in 0..100 /\ input.branches \in 0..100

\* C34: each of the five factors of a risk score has a value in [0, 10] and a
\* positive weight; Caller Count is 0 for no callers, follows the piecewise
\* formula over 1-5, 6-15, 16-30 and more than 30 callers, does not decrease
\* with the number of callers and stays within 10; Critical Path is 5 for a
\* critical target plus min(5, critical callers), at most 10.
C34_FactorBounds ==
  /\ analysis.outcome = "ok" => (score.called /\ analysisShaped(scoreInput))
  /\ score.called =>
       LET u == units(scoreInput)
           t == totalCallers(scoreInput)
       IN /\ analysisShaped(scoreInput) =>
               \A k \in 1..5 : /\ score.factors[k].value \in 0..(10 * u)
                                /\ score.factors[k].weight > 0
          /\ 150 * score.factors[1].value = callerFormula(t) * u
          /\ \A n \in 0..t : callerFormula(n) <= callerFormula(t)
          /\ callerFormula(t) <= 1500
          /\ score.factors[3].value =
               (IF scoreInput.fileCritical THEN 5 * u ELSE 0)
               + (IF scoreInput.critical < 5 THEN scoreInput.critical ELSE 5) * u
          /\ score.factors[3].value <= 10 * u
\* more than 130 callers and a critical target with five critical callers:
\* both factors stand at 10
C34_Witness ==
  /\ score.called /\ analysisShaped(scoreInput)
  /\ totalCallers(scoreInput) > 130
  /\ score.factors[1].value = 10 * units(scoreInput)
  /\ score.factors[3].value = 10 * units(scoreInput)

\* the files that contribute entries to a caller list
callerFiles(callers) == {callers[k].location.filePath : k \in 1..Len(callers)}

\* C35: in every analyzeFile and analyzeSymbol result no file contributes
\* entries to both directCallers and transitiveCallers, and in an analyzeFile
\* result no direct dependent of the target is among the transitive callers.
C35_DirectTransitiveDisjoint ==
  analysis.outcome = "ok" =>
    /\ callerFiles(analysis.directCallers)
         \cap callerFiles(analysis.transitiveCallers) = {}
    /\ analysis.op = "analyzeFile" =>
         callerFiles(analysis.transitiveCallers)
           \cap Range(getDirectDependents(graph, analysis.path)) = {}
\* analyzeFile has returned direct callers for a target whose transitive
\* dependents hold direct dependents, which were excluded, and others
C35_Witness ==
  /\ analysis.op = "analyzeFile" /\ analysis.outcome = "ok"
  /\ analysis.directCallers # <<>>
  /\ LET closure == Range(getTransitiveDependents(graph, analysis.path,
                                                   analysis.maxDepth))
         direct == Range(getDirectDependents(graph, analysis.path))
     IN closure \cap direct # {} /\ closure \ direct # {}

\* a step in which a caller's operation other than initialize returned
gatedCallReturns == lastCall' # lastCall
\* the session state an operation could change or read
sessionState == <<nodes, edges, reverseEdges, testFiles, cache, program,
                  initialized, boot, hooks>>
\* the edges are the ones buildEdges gives the nodes
edgesBuilt == sameGraph(graph, buildEdges(disk, graph))

\* C36: an operation other than initialize and getConfig called before an
\* initialize call has completed fails and changes nothing; the flag is set
\* only once the graph is built or loaded from a valid cache and the test
\* files are discovered, so every operation that succeeds reads a graph with
\* its edges built and the discovered test files.
C36_InitializationGate ==
  /\ [](initialized =>
          /\ boot.pc = "done"
          /\ edgesBuilt
          /\ Range(discoverFiles(disk)) \subseteq mapKeys(nodes)
          /\ testFiles = discoverTestFiles(disk))
  /\ [][(gatedCallReturns /\ ~ initialized)
          => (lastCall'.outcome = "error" /\ UNCHANGED sessionState)]_vars
\* a call was refused while initialize stood between its build and the
\* discovery of the test files
C36_Witness ==
  /\ boot.pc = "discoverTests" /\ nodes # <<>> /\ ~ initialized
  /\ lastCall.op = "getDependents" /\ lastCall.outcome = "error"

\* the keys and the members of an adjacency map
endpoints(edgeMap) ==
  mapKeys(edgeMap) \cup UNION {Range(edgeMap[i][2]) : i \in 1..Len(edgeMap)}
\* the files the imports of a node resolve to on the current disk
resolvedImports(filePath) ==
  LET node == mapGet(nodes, filePath)
  IN IF ~ hasImports(node) THEN {}
     ELSE {resolveImport(disk, node.imports[k].source, filePath) :
             k \in 1..Len(node.imports)} \ {NoPath}
\* the last call of the session ran buildEdges: a build, or an updateGraph
afterBuildEdges ==
  \/ lastCall.op = "initialize" /\ lastCall.cacheResult # "valid"
       /\ ~ (lastCall.outcome = "error" /\ lastCall.cacheResult = "rejected")
  \/ lastCall.op = "updateGraph" /\ initialized

\* C37: edge endpoints are always nodes. After a build and after every
\* updateGraph, every key and every member of the forward and of the reverse
\* adjacency map is a key of the node table, and an import that resolves to
\* a file that is not a node has produced no edge.
C37_EdgeEndpointsAreNodes ==
  afterBuildEdges =>
    /\ endpoints(edges) \subseteq mapKeys(nodes)
    /\ endpoints(reverseEdges) \subseteq mapKeys(nodes)
    /\ sinceCall =>
          \A filePath \in mapKeys(nodes) :
             \A target \in resolvedImports(filePath) \ mapKeys(nodes) :
                /\ target \notin Range(getDirectDependencies(graph, filePath))
                /\ ~ mapHas(reverseEdges, target)
\* an updateGraph has rebuilt the edges while an import of a node resolved to
\* a file on disk that is not a node, and other imports did produce edges
C37_Witness ==
  /\ lastCall.op = "updateGraph" /\ lastCall.outcome = "ok" /\ sinceCall
  /\ edges # <<>>
  /\ \E filePath \in mapKeys(nodes) :
        resolvedImports(filePath) \ mapKeys(nodes) # {}

\* a preEditHook call returns
preEditHookReturns == hooks'.result # hooks.result
\* analyzeFile rejects: the session is not initialized, or the file given
\* has no node
analysisFails(filePath) == ~ initialized \/ filePath \notin mapKeys(nodes)
hooksOff == ~ hooks.config.enabled \/ ~ hooks.config.autoAnalyze

\* C38: the pre-edit hook is fail-open. Every preEditHook call returns a
\* result. When the analysis fails (the hooks were never initialized, or the
\* file is not in the graph) the result is proceed = true, analysis = null,
\* requiresConfirmation = false and exactly one warning, whatever
\* blockOnHighRisk is; when the hooks are disabled or autoAnalyze is off the
\* result is proceed = true with no analysis and no warnings.
C38_PreEditFailOpen ==
  [][preEditHookReturns =>
       LET r == hooks'.result
       IN /\ r.called
          /\ (~ hooksOff /\ analysisFails(r.filePath))
               => /\ r.proceed
                  /\ ~ r.hasAnalysis
                  /\ ~ r.requiresConfirmation
                  /\ Len(r.warnings) = 1
          /\ hooksOff
               => /\ r.proceed
                  /\ ~ r.hasAnalysis
                  /\ r.warnings = <<>>]_vars
\* blocking is on, the session is initialized, and the analysis of a file
\* that is not in the graph has failed
C38_Witness ==
  /\ hooks.result.called /\ ~ hooksOff /\ hooks.config.blockOnHighRisk
  /\ initialized /\ analysisFails(hooks.result.filePath)
  /\ ~ hooks.result.hasAnalysis /\ Len(hooks.result.warnings) = 1

levelRank == [l \in {"LOW", "MEDIUM", "HIGH", "CRITICAL"} |->
                IF l = "LOW" THEN 1 ELSE IF l = "MEDIUM" THEN 2
                ELSE IF l = "HIGH" THEN 3 ELSE 4]

\* C39: the pre-edit blocking rule. preEditHook returns proceed = false iff
\* the analysis succeeded, blockOnHighRisk is set and the level of the
\* analysis ranks strictly above the configured riskThreshold in the order
\* LOW < MEDIUM < HIGH < CRITICAL, so that under the threshold HIGH only
\* CRITICAL blocks; requiresConfirmation is true iff the level is HIGH or
\* CRITICAL or summary.criticalPathCallers > 0, which is what
\* needsConfirmation gives for the analysis.
C39_PreEditBlockingRule ==
  hooks.result.called =>
    LET r == hooks.result
        config == hooks.config
        level == r.analysis.riskScore.level
    IN /\ ~ r.proceed
            <=> /\ r.hasAnalysis
                /\ config.blockOnHighRisk
                /\ levelRank[level] > levelRank[config.riskThreshold]
       /\ (config.riskThreshold = "HIGH" /\ ~ r.proceed) => level = "CRITICAL"
       /\ r.requiresConfirmation
            <=> \/ level \in {"HIGH", "CRITICAL"}
                \/ r.analysis.summary.criticalPathCallers > 0
       /\ r.hasAnalysis => r.requiresConfirmation = needsConfirmation(r.analysis)
\* under the default threshold a CRITICAL analysis has blocked the edit
C39_Witness ==
  /\ hooks.result.called /\ ~ hooks.result.proceed
  /\ hooks.config.riskThreshold = "HIGH"
  /\ hooks.result.analysis.riskScore.level = "CRITICAL"

\* the last call of the session was one of the eight queries
lastWasQuery == lastCall.op \in QueryOps \cup GatedOps
\* what the query last called returns when it is called again now
askedAgain ==
  IF lastCall.op \in GatedOps THEN gatedResult(lastCall.op, lastCall.path)
  ELSE queryResult(lastCall.op, lastCall.path)

====
